---- MODULE Spec2Model ----
(***************************************************************************)
(* Model of the legend-score engine of pipeline/legend_scores.py:          *)
(* normalize_position, percentile_score, calculate_attribute_scores,       *)
(* calculate_legend_score and the batch driver process_players; and of     *)
(* harmonize_positions and apply_legend_filters of pipeline/normalize.py.  *)
(*                                                                         *)
(* Python numbers that are only compared (heights, picks, counts) are      *)
(* integers here.  A pandas null is the marker NaN, Python's None the      *)
(* marker None, pd.NA the marker NA; a null position label is NaNLabel.    *)
(*                                                                         *)
(* Scores are exact rationals [n, d] in lowest terms in SpecPercentile,    *)
(* SpecLegend, SpecAttributes and SpecProcess, which settle what is        *)
(* computed: the counts, the divisors, the table, the branches taken and   *)
(* the rows emitted.  SpecLegendF64, SpecPercentileF64 and SpecOrder run   *)
(* the calls in the binary64 arithmetic of Python floats, which settles    *)
(* where the rounding and the order of the sums decide.  SpecNormalize     *)
(* runs normalize_position on its own, SpecWeights the weighted average    *)
(* on a weight table, SpecQuarterbacks process_players on a table of       *)
(* quarterbacks, SpecHarmonize and SpecFilters the two functions of        *)
(* normalize.py.                                                           *)
(***************************************************************************)
EXTENDS Integers, Sequences, FiniteSets, TLC

VARIABLES
    pc,                \* position of the caller: which call has been made
    value,             \* percentile_score: argument value
    values,            \* percentile_score: argument values (a pd.Series)
    higher_better,     \* percentile_score: argument higher_better
    pscore,            \* percentile_score: returned score
    row,               \* calculate_attribute_scores: argument row
    position_data,     \* calculate_attribute_scores: argument position_data
    position,          \* calculate_legend_score: argument position
    attribute_scores,  \* dict returned by calculate_attribute_scores
    legend_score,      \* value returned by calculate_legend_score
    pos_arg,           \* normalize_position: argument pos
    normalized,        \* normalize_position: the labels returned so far
    df,                \* process_players: argument df
    min_position_players, \* process_players: argument min_position_players
    unique_positions,  \* process_players: labels the outer loop has yet to visit
    position_df,       \* process_players: the frame of the current group
    next_row,          \* process_players: index of the next row of position_df
    results,           \* process_players: the list results
    legend_calls,      \* calculate_legend_score: the calls made one after another
    weights,           \* calculate_legend_score: the local weights
    df_given,          \* process_players: the table as the caller built it
    df_arg,            \* normalize.py: the argument df of the call
    df_returned        \* normalize.py: the frame the call returned

\* the state of a call of normalize_position
normalizeVars == << pos_arg, normalized >>

\* the state of a call of process_players
processVars == << df, min_position_players, unique_positions, position_df,
                 next_row, results >>

\* the state of the calls the other specifications make
restVars == << weights, df_given, df_arg, df_returned >>

vars == << pc, value, values, higher_better, pscore, row, position_data,
           position, attribute_scores, legend_score, normalizeVars,
           processVars, legend_calls, weights, df_given, df_arg,
           df_returned >>

----------------------------------------------------------------------------
(* Bounds of the model *)

\* largest number of peers in a Series / rows in a position_data frame
MaxPeers == 2

----------------------------------------------------------------------------
(* Python / pandas values *)

\* float('nan'): what pandas holds for a missing cell
NaN == -1
\* Python None: what row.get(key) returns for an absent key
None == -2
\* the reserved draft_pick value of an undrafted player
UNDRAFTED == 999

\* pd.NA: a null whose truth value is a TypeError
NA == 0 - 4

\* a null test that knows None but not NaN
IsNaNoneOnly(x) == x = None

\* pd.isna(x)
IsNa(x) == x = NaN \/ x = None \/ x = NA

\* bool(x) of a Python scalar: None, False and 0 are falsy, NaN is truthy
Truthy(x) == x # None /\ x # 0

\* elementwise a < b of pandas: False whenever a side is NaN
Less(a, b) == ~IsNa(a) /\ ~IsNa(b) /\ a < b

\* row.get(key, default)
Get(r, key, default) == IF key \in DOMAIN r THEN r[key] ELSE default

----------------------------------------------------------------------------
(* Exact arithmetic on scores *)

RECURSIVE GCD(_, _)
GCD(a, b) == IF b = 0 THEN a ELSE GCD(b, a % b)

\* the fraction a / b (a >= 0, b > 0) in lowest terms
Rat(a, b) == LET g == GCD(a, b) IN [n |-> a \div g, d |-> b \div g]

RatAdd(x, y) == Rat(x.n * y.d + y.n * x.d, x.d * y.d)
RatMul(x, y) == Rat(x.n * y.n, x.d * y.d)
RatDiv(x, y) == Rat(x.n * y.d, x.d * y.n)
RatLe(x, y)  == x.n * y.d <= y.n * x.d

\* a float literal such as 50.0 or 100.0
Num(k) == Rat(k, 1)

----------------------------------------------------------------------------
(* percentile_score *)

\* the count with <= in place of <
RECURSIVE CountBelowOrEqual(_, _)
CountBelowOrEqual(vals, v) ==
    IF vals = << >> THEN 0
    ELSE (IF Less(Head(vals), v) \/ Head(vals) = v THEN 1 ELSE 0)
         + CountBelowOrEqual(Tail(vals), v)

\* the count with >= in place of >
RECURSIVE CountAboveOrEqual(_, _)
CountAboveOrEqual(vals, v) ==
    IF vals = << >> THEN 0
    ELSE (IF Less(v, Head(vals)) \/ Head(vals) = v THEN 1 ELSE 0)
         + CountAboveOrEqual(Tail(vals), v)

\* the count with != in place of <
RECURSIVE CountNotEqual(_, _)
CountNotEqual(vals, v) ==
    IF vals = << >> THEN 0
    ELSE (IF Head(vals) # v THEN 1 ELSE 0) + CountNotEqual(Tail(vals), v)

\* (mask).sum() for the boolean mask values < value (or values > value)
RECURSIVE CountBelow(_, _)
CountBelow(vals, v) ==
    IF vals = << >> THEN 0
    ELSE (IF Less(Head(vals), v) THEN 1 ELSE 0) + CountBelow(Tail(vals), v)

RECURSIVE CountAbove(_, _)
CountAbove(vals, v) ==
    IF vals = << >> THEN 0
    ELSE (IF Less(v, Head(vals)) THEN 1 ELSE 0) + CountAbove(Tail(vals), v)

\* the score with the mean taken over the non-null entries only
percentile_score_dropna(v, vals, hb) ==
    LET known == Cardinality({ i \in DOMAIN vals : ~IsNa(vals[i]) })
    IN  IF IsNa(v) \/ known = 0
        THEN Num(50)
        ELSE IF hb THEN Rat(CountBelow(vals, v) * 100, known)
                   ELSE Rat(CountAbove(vals, v) * 100, known)

\* the score with .sum() in place of .mean()
percentile_score_sum(v, vals, hb) ==
    IF IsNa(v) \/ vals = << >>
    THEN Num(50)
    ELSE IF hb THEN Num(CountBelow(vals, v) * 100)
               ELSE Num(CountAbove(vals, v) * 100)

percentile_score(v, vals, hb) ==
    IF IsNa(v) \/ Len(vals) = 0
    THEN Num(50)
    ELSE IF hb
         THEN RatMul(Rat(CountBelow(vals, v), Len(vals)), Num(100))
         ELSE RatMul(Rat(CountAbove(vals, v), Len(vals)), Num(100))

----------------------------------------------------------------------------
(* calculate_attribute_scores *)

\* a DataFrame: its column labels and its rows (each a function on cols)
Frame(cols, rows) == [cols |-> cols, rows |-> rows]

\* position_data[c]: the column c as a Series
Column(pd, c) == [i \in 1..Len(pd.rows) |-> pd.rows[i][c]]

\* the attributes scored by a guarded percentile, in source order:
\* << key of scores, column of the data, higher_better >>
PERCENTILE_ATTRS ==
    << <<"height", "height_in", TRUE>>,
       <<"weight", "weight_lb", TRUE>>,
       <<"forty_time", "forty_time", FALSE>>,
       <<"vertical_jump", "vertical_jump", TRUE>>,
       <<"bench_press", "bench_press", TRUE>>,
       <<"career_passing_yards", "career_passing_yards", TRUE>>,
       <<"career_passing_tds", "career_passing_tds", TRUE>>,
       <<"career_rushing_yards", "career_rushing_yards", TRUE>>,
       <<"career_rushing_tds", "career_rushing_tds", TRUE>>,
       <<"career_receiving_yards", "career_receiving_yards", TRUE>>,
       <<"career_receiving_tds", "career_receiving_tds", TRUE>>,
       <<"playoff_passing_yards", "playoff_passing_yards", TRUE>>,
       <<"playoff_passing_tds", "playoff_passing_tds", TRUE>>,
       <<"playoff_rushing_yards", "playoff_rushing_yards", TRUE>>,
       <<"playoff_receiving_yards", "playoff_receiving_yards", TRUE>>,
       <<"playoff_receiving_tds", "playoff_receiving_tds", TRUE>>,
       <<"def_solo_tackles", "def_solo_tackles", TRUE>>,
       <<"def_sacks", "def_sacks", TRUE>>,
       <<"def_ints", "def_ints", TRUE>>,
       <<"career_seasons", "career_seasons", TRUE>>,
       <<"total_career_games", "total_career_games", TRUE>> >>

\* the guard "if not pd.isna(row.get(column))" of a percentile attribute
HasValue(r, column) == ~IsNa(Get(r, column, None))

\* the draft_pick guard without the test for the 999 marker
IsDraftedNoSentinel(r) == HasValue(r, "draft_pick")

\* the guard of the draft_pick branch: a value that is not the 999 marker
IsDrafted(r) == HasValue(r, "draft_pick") /\ r["draft_pick"] # UNDRAFTED

\* scores['draft_pick']
DraftPickScore(r, pd) ==
    IF IsDrafted(r)
    THEN percentile_score(r["draft_pick"], Column(pd, "draft_pick"), FALSE)
    ELSE Num(10)

\* scores['pro_bowls'], scores['all_pros']
HonorScore(r, pd, column) ==
    percentile_score(Get(r, column, 0), Column(pd, column), TRUE)

\* scores['hof_flag']
HofScore(r) == IF Truthy(Get(r, "hof_flag", 0)) THEN Num(100) ELSE Num(0)

\* the columns of position_data the call indexes; a missing one is a KeyError
ColumnsRead(r) ==
    { PERCENTILE_ATTRS[i][2] :
        i \in { j \in DOMAIN PERCENTILE_ATTRS :
                  HasValue(r, PERCENTILE_ATTRS[j][2]) } }
    \cup (IF IsDrafted(r) THEN {"draft_pick"} ELSE {})
    \cup {"pro_bowls", "all_pros"}

\* the keys of the returned dict
ScoreKeys(r) ==
    { PERCENTILE_ATTRS[i][1] :
        i \in { j \in DOMAIN PERCENTILE_ATTRS :
                  HasValue(r, PERCENTILE_ATTRS[j][2]) } }
    \cup {"draft_pick", "pro_bowls", "all_pros", "hof_flag"}

\* the entry of PERCENTILE_ATTRS that sets scores[key]
AttrOf(key) ==
    PERCENTILE_ATTRS[CHOOSE i \in DOMAIN PERCENTILE_ATTRS :
                        PERCENTILE_ATTRS[i][1] = key]

\* the call: [raised |-> TRUE] for a KeyError (a column that is indexed but
\* missing) or a TypeError (the truth value of pd.NA), else the scores dict
calculate_attribute_scores(r, pd) ==
    IF ~(ColumnsRead(r) \subseteq pd.cols) \/ Get(r, "hof_flag", 0) = NA
    THEN [raised |-> TRUE, scores |-> << >>]
    ELSE [raised |-> FALSE,
          scores |->
            [k \in ScoreKeys(r) |->
               CASE k = "draft_pick" -> DraftPickScore(r, pd)
                 [] k = "pro_bowls"  -> HonorScore(r, pd, "pro_bowls")
                 [] k = "all_pros"   -> HonorScore(r, pd, "all_pros")
                 [] k = "hof_flag"   -> HofScore(r)
                 [] OTHER ->
                      percentile_score(r[AttrOf(k)[2]],
                                       Column(pd, AttrOf(k)[2]),
                                       AttrOf(k)[3])]]

----------------------------------------------------------------------------
(* calculate_legend_score *)

\* POSITION_WEIGHTS: per position the (attribute, weight) items in dict
\* order; a weight w stands for the float w / 100
POSITION_WEIGHTS ==
    [ QB |-> <<
            <<"height", 1>>, <<"weight", 1>>, <<"forty_time", 1>>,
            <<"career_passing_yards", 10>>, <<"career_passing_tds", 12>>,
            <<"playoff_passing_yards", 18>>, <<"playoff_passing_tds", 35>>,
            <<"career_seasons", 5>>, <<"draft_pick", 2>>,
            <<"pro_bowls", 8>>, <<"all_pros", 12>>, <<"hof_flag", 9>> >>,
      RB |-> <<
            <<"height", 3>>, <<"weight", 8>>, <<"forty_time", 15>>,
            <<"career_rushing_yards", 25>>, <<"career_rushing_tds", 20>>,
            <<"career_receiving_yards", 10>>,
            <<"career_receiving_tds", 5>>, <<"playoff_rushing_yards", 4>>,
            <<"career_seasons", 5>>, <<"draft_pick", 5>>,
            <<"pro_bowls", 12>>, <<"all_pros", 15>>, <<"hof_flag", 6>> >>,
      WR |-> <<
            <<"height", 6>>, <<"weight", 2>>, <<"forty_time", 15>>,
            <<"vertical_jump", 6>>, <<"career_receiving_yards", 25>>,
            <<"career_receiving_tds", 20>>,
            <<"playoff_receiving_yards", 6>>,
            <<"playoff_receiving_tds", 4>>, <<"career_seasons", 5>>,
            <<"draft_pick", 6>>, <<"pro_bowls", 12>>, <<"all_pros", 15>>,
            <<"hof_flag", 6>> >>,
      TE |-> <<
            <<"height", 15>>, <<"weight", 12>>, <<"forty_time", 10>>,
            <<"career_receiving_yards", 20>>,
            <<"career_receiving_tds", 15>>,
            <<"playoff_receiving_yards", 5>>, <<"career_seasons", 5>>,
            <<"draft_pick", 8>>, <<"pro_bowls", 12>>, <<"all_pros", 15>>,
            <<"hof_flag", 6>> >>,
      OL |-> <<
            <<"height", 20>>, <<"weight", 20>>, <<"bench_press", 12>>,
            <<"career_seasons", 15>>, <<"total_career_games", 10>>,
            <<"draft_pick", 8>>, <<"pro_bowls", 12>>, <<"all_pros", 15>>,
            <<"hof_flag", 8>> >>,
      DL |-> <<
            <<"height", 10>>, <<"weight", 15>>, <<"forty_time", 10>>,
            <<"bench_press", 10>>, <<"def_sacks", 25>>,
            <<"def_solo_tackles", 15>>, <<"career_seasons", 5>>,
            <<"draft_pick", 6>>, <<"pro_bowls", 12>>, <<"all_pros", 15>>,
            <<"hof_flag", 7>> >>,
      LB |-> <<
            <<"height", 8>>, <<"weight", 12>>, <<"forty_time", 15>>,
            <<"vertical_jump", 8>>, <<"def_solo_tackles", 25>>,
            <<"def_sacks", 15>>, <<"def_ints", 8>>,
            <<"career_seasons", 5>>, <<"draft_pick", 6>>,
            <<"pro_bowls", 12>>, <<"all_pros", 15>>, <<"hof_flag", 6>> >>,
      DB |-> <<
            <<"height", 8>>, <<"weight", 4>>, <<"forty_time", 25>>,
            <<"vertical_jump", 12>>, <<"def_ints", 25>>,
            <<"def_solo_tackles", 12>>, <<"career_seasons", 5>>,
            <<"draft_pick", 6>>, <<"pro_bowls", 12>>, <<"all_pros", 15>>,
            <<"hof_flag", 6>> >>,
      K |-> <<
            <<"height", 5>>, <<"weight", 5>>, <<"draft_pick", 20>>,
            <<"pro_bowls", 30>>, <<"all_pros", 30>>, <<"hof_flag", 10>> >>,
      P |-> <<
            <<"height", 5>>, <<"weight", 5>>, <<"draft_pick", 20>>,
            <<"pro_bowls", 30>>, <<"all_pros", 30>>, <<"hof_flag", 10>> >> ]

\* a weight of the table as a number
Weight(w) == Rat(w, 100)

\* the loop normalising by the weights of the attributes the player has
RECURSIVE AccumulatePresentOnly(_, _, _, _)
AccumulatePresentOnly(items, scores, total_score, total_weight) ==
    IF items = << >>
    THEN << total_score, total_weight >>
    ELSE LET attribute == Head(items)[1]
             weight    == Weight(Head(items)[2])
         IN  IF attribute \in DOMAIN scores
             THEN AccumulatePresentOnly(Tail(items), scores,
                      RatAdd(total_score, RatMul(scores[attribute], weight)),
                      RatAdd(total_weight, weight))
             ELSE AccumulatePresentOnly(Tail(items), scores,
                      total_score, total_weight)

\* the loop scoring a missing attribute 0 instead of 50
RECURSIVE AccumulateMissingZero(_, _, _, _)
AccumulateMissingZero(items, scores, total_score, total_weight) ==
    IF items = << >>
    THEN << total_score, total_weight >>
    ELSE LET attribute == Head(items)[1]
             weight    == Weight(Head(items)[2])
             s == IF attribute \in DOMAIN scores
                  THEN scores[attribute]
                  ELSE Num(0)
         IN  AccumulateMissingZero(Tail(items), scores,
                        RatAdd(total_score, RatMul(s, weight)),
                        RatAdd(total_weight, weight))

\* the for loop over weights.items(): << total_score, total_weight >>
RECURSIVE Accumulate(_, _, _, _)
Accumulate(items, scores, total_score, total_weight) ==
    IF items = << >>
    THEN << total_score, total_weight >>
    ELSE LET attribute == Head(items)[1]
             weight    == Weight(Head(items)[2])
             s == IF attribute \in DOMAIN scores
                  THEN scores[attribute]
                  ELSE Num(50)
         IN  Accumulate(Tail(items), scores,
                        RatAdd(total_score, RatMul(s, weight)),
                        RatAdd(total_weight, weight))

\* the lookup falling back to the first table instead of LB
WeightsForFirstTable(pos) ==
    IF pos \notin DOMAIN POSITION_WEIGHTS
    THEN POSITION_WEIGHTS["QB"]
    ELSE POSITION_WEIGHTS[pos]

\* the weight table the call uses: LB when the position has none
WeightsFor(pos) ==
    IF pos \notin DOMAIN POSITION_WEIGHTS
    THEN POSITION_WEIGHTS["LB"]
    ELSE POSITION_WEIGHTS[pos]

\* the final step returning 0.0 when no weight was accumulated
AverageZeroWithoutWeight(totals) ==
    IF totals[2].n = 0 THEN Num(0) ELSE RatDiv(totals[1], totals[2])

\* the final division, with the zero-weight guard
Average(totals) ==
    IF totals[2].n = 0 THEN Num(50) ELSE RatDiv(totals[1], totals[2])

calculate_legend_score(scores, pos) ==
    Average(Accumulate(WeightsFor(pos), scores, Num(0), Num(0)))

----------------------------------------------------------------------------
(* normalize_position *)

\* float('nan') in a column of position labels
NaNLabel == "NaN"

\* pd.isna(position) of a position label
IsNaLabel(label) == label = NaNLabel

\* an alias table in which one target is itself a key
POSITION_MAPPINGS_Chained ==
    [ S |-> "DB", CB |-> "DB", SS |-> "DB", FS |-> "DB", SAF |-> "DB",
      OLB |-> "LB", ILB |-> "LB", MLB |-> "LB",
      DE |-> "DL", DT |-> "DL", NT |-> "DL",
      C |-> "OL", G |-> "OL", T |-> "OL", OG |-> "OL", OT |-> "OL",
      FB |-> "RB", HB |-> "FB",
      LS |-> "P" ]

\* POSITION_MAPPINGS
POSITION_MAPPINGS ==
    [ S |-> "DB", CB |-> "DB", SS |-> "DB", FS |-> "DB", SAF |-> "DB",
      OLB |-> "LB", ILB |-> "LB", MLB |-> "LB",
      DE |-> "DL", DT |-> "DL", NT |-> "DL",
      C |-> "OL", G |-> "OL", T |-> "OL", OG |-> "OL", OT |-> "OL",
      FB |-> "RB", HB |-> "RB",
      LS |-> "P" ]

\* a normalizer that sends a label without an alias to the LB group
normalize_position_default_LB(label) ==
    IF label \in DOMAIN POSITION_MAPPINGS
    THEN POSITION_MAPPINGS[label]
    ELSE "LB"

\* normalize_position(pos)
normalize_position(label) ==
    IF label \in DOMAIN POSITION_MAPPINGS
    THEN POSITION_MAPPINGS[label]
    ELSE label

----------------------------------------------------------------------------
(* process_players *)

\* the assignment that also replaces primary_pos by the normalized label
WithPrimaryPosReplaced(frame) ==
    Frame(frame.cols \cup {"normalized_pos"},
          [i \in DOMAIN frame.rows |->
             [c \in frame.cols \cup {"normalized_pos"} |->
                IF c \in {"normalized_pos", "primary_pos"}
                THEN normalize_position(frame.rows[i]["primary_pos"])
                ELSE frame.rows[i][c]]])

\* df['normalized_pos'] = df['primary_pos'].apply(normalize_position)
WithNormalizedPos(frame) ==
    Frame(frame.cols \cup {"normalized_pos"},
          [i \in DOMAIN frame.rows |->
             [c \in frame.cols \cup {"normalized_pos"} |->
                IF c = "normalized_pos"
                THEN normalize_position(frame.rows[i]["primary_pos"])
                ELSE frame.rows[i][c]]])

\* Series.unique(): the distinct entries in order of first appearance
RECURSIVE Unique(_, _)
Unique(series, seen) ==
    IF series = << >> THEN << >>
    ELSE IF Head(series) \in seen
         THEN Unique(Tail(series), seen)
         ELSE << Head(series) >>
              \o Unique(Tail(series), seen \cup {Head(series)})

\* the rows of a sequence that satisfy a test, in order
RECURSIVE SelectRows(_, _)
SelectRows(rows, label) ==
    IF rows = << >> THEN << >>
    ELSE (IF Head(rows)["normalized_pos"] = label
          THEN << Head(rows) >> ELSE << >>)
         \o SelectRows(Tail(rows), label)

\* the whole table in place of the rows of one label
WholeFrame(frame, label) == frame

\* df[df['normalized_pos'] == position].copy()
PositionFrame(frame, label) == Frame(frame.cols, SelectRows(frame.rows, label))

\* the size test with <= in place of <
GroupTooSmallOrEqual(frame, minimum) == Len(frame.rows) <= minimum

\* len(position_df) < min_position_players
GroupTooSmall(frame, minimum) == Len(frame.rows) < minimum

\* a rounding that keeps every digit
RoundKeepAll(x) == x

\* round(x, 2) of a score x >= 0: the nearest hundredth, a tie going to the
\* even hundredth
Round2(x) ==
    LET scaled == 100 * x.n
        q      == scaled \div x.d
        twice  == 2 * (scaled % x.d)
        up     == twice > x.d \/ (twice = x.d /\ q % 2 = 1)
    IN  Rat(IF up THEN q + 1 ELSE q, 100)

\* the output row with the raw label in place of the normalized one
ResultRowRawPosition(r, label, score) ==
    [ player_id    |-> r["player_id"],
      full_name    |-> r["full_name"],
      position     |-> r["primary_pos"],
      legend_score |-> Round2(score),
      source_tier  |-> 2 ]

\* the dict appended to results
ResultRow(r, label, score) ==
    [ player_id    |-> r["player_id"],
      full_name    |-> r["full_name"],
      position     |-> label,
      legend_score |-> Round2(score),
      source_tier  |-> 2 ]

\* row['player_id'] and row['full_name'] can be read
HasIdentity(r) == {"player_id", "full_name"} \subseteq DOMAIN r

----------------------------------------------------------------------------
(* Inputs *)

\* a result variable before the call that sets it
Unset == [n |-> 0 - 1, d |-> 1]
\* a dict / Series with no entries
Empty == << >>

\* the scoring functions have not been called
ScoringNotCalled ==
    /\ value = NaN
    /\ values = << >>
    /\ higher_better = TRUE
    /\ pscore = Unset
    /\ row = Empty
    /\ position_data = Frame({}, << >>)
    /\ position = "LB"
    /\ attribute_scores = Empty
    /\ legend_score = Unset

\* the calls of the other specifications have not been made
RestNotCalled ==
    /\ weights = << >>
    /\ df_given = Frame({}, << >>)
    /\ df_arg = Frame({}, << >>)
    /\ df_returned = Frame({}, << >>)

\* normalize_position has not been called
NormalizeNotCalled ==
    /\ pos_arg = ""
    /\ normalized = << >>

\* process_players has not been called
ProcessNotCalled ==
    /\ df = Frame({}, << >>)
    /\ min_position_players = 3
    /\ unique_positions = << >>
    /\ position_df = Frame({}, << >>)
    /\ next_row = 0
    /\ results = << >>

\* raw numbers used as the argument and as peer values of percentile_score
RawValues == {1, 2, 3}

\* all Series of at most MaxPeers entries over a set of cell values
SeriesOver(S) == UNION { [1..n -> S] : n \in 0..MaxPeers }

----------------------------------------------------------------------------
(* normalize_position called on its own, and again on what it returned *)

\* the canonical position groups
CanonicalPositions == {"QB", "RB", "WR", "TE", "OL", "DL", "LB", "DB", "K", "P"}

\* labels that are neither an alias nor a canonical group
UnknownLabels ==
    {"UNKNOWN", "XX", "EDGE", "", "s", "db", "Qb", "WR/TE", NaNLabel}

\* the labels passed in
Labels == DOMAIN POSITION_MAPPINGS \cup CanonicalPositions \cup UnknownLabels

InitNormalize ==
    /\ ScoringNotCalled
    /\ ProcessNotCalled
    /\ legend_calls = << >>
    /\ RestNotCalled
    /\ pc = "call_normalize"
    /\ pos_arg \in Labels
    /\ normalized = << >>

\* normalize_position(pos)
NormalizeCall ==
    /\ pc = "call_normalize"
    /\ normalized' = << normalize_position(pos_arg) >>
    /\ pc' = "call_normalize_again"
    /\ UNCHANGED << pos_arg, value, values, higher_better, pscore, row,
                    position_data, position, attribute_scores, legend_score,
                    processVars, legend_calls >>
    /\ UNCHANGED restVars

\* normalize_position(normalize_position(pos))
NormalizeAgainCall ==
    /\ pc = "call_normalize_again"
    /\ normalized' = Append(normalized, normalize_position(normalized[1]))
    /\ pc' = "normalize_done"
    /\ UNCHANGED << pos_arg, value, values, higher_better, pscore, row,
                    position_data, position, attribute_scores, legend_score,
                    processVars, legend_calls >>
    /\ UNCHANGED restVars

NextNormalize == NormalizeCall \/ NormalizeAgainCall

SpecNormalize == InitNormalize /\ [][NextNormalize]_vars

\* the target the alias table gives a label, group by group
AliasTarget(label) ==
    CASE label \in {"S", "CB", "SS", "FS", "SAF"}   -> "DB"
      [] label \in {"OLB", "ILB", "MLB"}            -> "LB"
      [] label \in {"DE", "DT", "NT"}               -> "DL"
      [] label \in {"C", "G", "T", "OG", "OT"}      -> "OL"
      [] label \in {"FB", "HB"}                     -> "RB"
      [] label = "LS"                               -> "P"
      [] OTHER                                      -> label

\* the labels that have an alias
AliasKeys ==
    {"S", "CB", "SS", "FS", "SAF", "OLB", "ILB", "MLB", "DE", "DT", "NT",
     "C", "G", "T", "OG", "OT", "FB", "HB", "LS"}

\* C11: normalize_position returns the alias table's target for every key of
\* the table, and returns every other label (a canonical group, an unknown
\* string) unchanged.
C11_AliasOrPassThrough ==
    Len(normalized) >= 1 =>
        /\ pos_arg \in AliasKeys => normalized[1] = AliasTarget(pos_arg)
        /\ pos_arg \notin AliasKeys => normalized[1] = pos_arg

\* both cases of C11 have happened: an unknown label came back unchanged
C11_Witness ==
    /\ pc = "call_normalize_again"
    /\ pos_arg = "UNKNOWN"
    /\ normalized = << "UNKNOWN" >>

\* C12: normalize_position is idempotent: normalizing what it returned gives
\* the same label, for every alias and every string outside the table.
C12_Idempotent ==
    Len(normalized) = 2 => normalized[2] = normalized[1]

\* an alias was normalized twice
C12_Witness ==
    /\ pc = "normalize_done"
    /\ pos_arg = "HB"
    /\ normalized = << "RB", "RB" >>

----------------------------------------------------------------------------
(* percentile_score called on its own *)

InitPercentile ==
    /\ NormalizeNotCalled
    /\ ProcessNotCalled
    /\ legend_calls = << >>
    /\ RestNotCalled
    /\ pc = "call_percentile"
    /\ value \in RawValues \cup {NaN, None}
    /\ values \in SeriesOver(RawValues \cup {NaN})
    /\ higher_better \in BOOLEAN
    /\ pscore = Unset
    /\ row = Empty
    /\ position_data = Frame({}, << >>)
    /\ position = "LB"
    /\ attribute_scores = Empty
    /\ legend_score = Unset

PercentileCall ==
    /\ pc = "call_percentile"
    /\ pscore' = percentile_score(value, values, higher_better)
    /\ pc' = "percentile_done"
    /\ UNCHANGED << value, values, higher_better, row, position_data,
                    position, attribute_scores, legend_score >>
    /\ UNCHANGED << normalizeVars, processVars, legend_calls >>
    /\ UNCHANGED restVars

NextPercentile == PercentileCall

SpecPercentile == InitPercentile /\ [][NextPercentile]_vars

----------------------------------------------------------------------------
(* Claims about percentile_score *)

\* the peers of the call that hold a number below / above the argument
PeersBelow == { i \in DOMAIN values : values[i] # NaN /\ values[i] < value }
PeersAbove == { i \in DOMAIN values : values[i] # NaN /\ values[i] > value }

\* the argument of the call is a missing value
ValueMissing == value \in {NaN, None}

\* the call returned and its arguments were a number and a non-empty Series
RankedCall ==
    pc = "percentile_done" /\ ~ValueMissing /\ Len(values) > 0

\* C1: for a non-missing value and a non-empty peer collection,
\* percentile_score with higher_better=True returns the number of peers
\* strictly less than the value, divided by the number of peers, times 100.
C1_HigherBetterFraction ==
    (RankedCall /\ higher_better)
        => pscore = Rat(100 * Cardinality(PeersBelow), Len(values))

C1_Witness ==
    /\ RankedCall /\ higher_better
    /\ Cardinality(PeersBelow) = 1 /\ Len(values) = 2
    /\ \E i \in DOMAIN values : values[i] = value

\* C2: for a non-missing value and a non-empty peer collection,
\* percentile_score with higher_better=False returns the number of peers
\* strictly greater than the value, divided by the number of peers, times
\* 100; so no larger raw value scores higher than the value of the call.
C2_LowerBetterFraction ==
    (RankedCall /\ ~higher_better)
        => /\ pscore = Rat(100 * Cardinality(PeersAbove), Len(values))
           /\ \A larger \in RawValues :
                 larger > value
                    => RatLe(percentile_score(larger, values, FALSE), pscore)

C2_Witness ==
    /\ RankedCall /\ ~higher_better
    /\ Cardinality(PeersAbove) = 1 /\ Len(values) = 2
    /\ \E i \in DOMAIN values : values[i] = value

\* C3: percentile_score returns exactly 50 whenever the value is missing or
\* the peer collection is empty, for either direction flag.
C3_NeutralWhenMissingOrEmpty ==
    (pc = "percentile_done" /\ (ValueMissing \/ Len(values) = 0))
        => pscore = Num(50)

C3_Witness ==
    /\ pc = "percentile_done"
    /\ value = NaN /\ Len(values) > 0 /\ ~higher_better
    /\ pscore = Num(50)

\* C17: with higher_better=True and a fixed non-empty Series, the score is
\* monotonic in the value: a larger non-missing value never scores lower.
C17_MonotonicInValue ==
    (RankedCall /\ higher_better) =>
        \A v2 \in RawValues :
            value < v2 => RatLe(pscore, percentile_score(v2, values, TRUE))

\* a value below a peer was scored, and a larger value scores strictly more
C17_Witness ==
    /\ pc = "percentile_done"
    /\ higher_better
    /\ value = 1
    /\ values = << 1, 2 >>
    /\ pscore = Num(0)
    /\ percentile_score(3, values, TRUE) = Num(100)

\* the peers equal to the value, and the peers not comparable to it
PeersEqual == { i \in DOMAIN values : values[i] = value }
PeersNull == { i \in DOMAIN values : values[i] = NaN }

\* in exact arithmetic the two directions of a ranked call add up to 100
\* less the share of the peers that are equal to the value or null
ExactSumOfDirections ==
    RankedCall =>
        RatAdd(pscore, percentile_score(value, values, ~higher_better))
          = Rat(100 * (Len(values) - Cardinality(PeersEqual)
                                   - Cardinality(PeersNull)),
                Len(values))

\* C19: the score lies in [0,100] for every value (missing or not), every
\* Series (empty or not) and either direction.
C19_ScoreInRange ==
    pc = "percentile_done" => RatLe(Num(0), pscore) /\ RatLe(pscore, Num(100))

\* the upper end is reached: every peer is below the value
C19_Witness ==
    /\ pc = "percentile_done"
    /\ higher_better
    /\ value = 3
    /\ values = << 1, 2 >>
    /\ pscore = Num(100)

----------------------------------------------------------------------------
(* calculate_legend_score called on a dict of attribute scores *)

\* keys of the dicts passed in: scored attributes and one no table weighs
DictKeys == {"height", "def_sacks", "draft_pick", "hof_flag", "broad_jump"}

\* scores in [0,100] passed in
DictScores == {Num(0), Rat(100, 3), Num(100)}

\* all dicts over a subset of DictKeys
ScoreDicts == UNION { [K -> DictScores] : K \in SUBSET DictKeys }

\* position labels passed in: the ten with a table and two without
LegendPositions == DOMAIN POSITION_WEIGHTS \cup {"UNKNOWN_POS", "S"}

InitLegend ==
    /\ NormalizeNotCalled
    /\ ProcessNotCalled
    /\ legend_calls = << >>
    /\ RestNotCalled
    /\ pc = "call_legend"
    /\ attribute_scores \in ScoreDicts
    /\ position \in LegendPositions
    /\ legend_score = Unset
    /\ value = NaN
    /\ values = << >>
    /\ higher_better = TRUE
    /\ pscore = Unset
    /\ row = Empty
    /\ position_data = Frame({}, << >>)

LegendScoreCall ==
    /\ pc = "call_legend"
    /\ legend_score' = calculate_legend_score(attribute_scores, position)
    /\ pc' = "done"
    /\ UNCHANGED << value, values, higher_better, pscore, row,
                    position_data, position, attribute_scores >>
    /\ UNCHANGED << normalizeVars, processVars, legend_calls >>
    /\ UNCHANGED restVars

NextLegend == LegendScoreCall

SpecLegend == InitLegend /\ [][NextLegend]_vars

----------------------------------------------------------------------------
(* Claims about calculate_legend_score *)

\* the weight table the claims speak of for the position of the call
TableOfCall ==
    IF position \in DOMAIN POSITION_WEIGHTS
    THEN POSITION_WEIGHTS[position]
    ELSE POSITION_WEIGHTS["LB"]

\* f[1] + ... + f[n]
RECURSIVE SumTo(_, _)
SumTo(f, n) == IF n = 0 THEN Num(0) ELSE RatAdd(SumTo(f, n - 1), f[n])

\* s(a): the score of the dict when present, 50 when absent
ScoreOrNeutral(scores, a) ==
    IF a \in DOMAIN scores THEN scores[a] ELSE Num(50)

\* sum over all attributes a of the table of weight[a] * s(a)
WeightedSum(table, scores) ==
    SumTo([i \in DOMAIN table |->
             RatMul(Rat(table[i][2], 100),
                    ScoreOrNeutral(scores, table[i][1]))], Len(table))

\* sum of all weights of the table
WeightTotal(table) ==
    SumTo([i \in DOMAIN table |-> Rat(table[i][2], 100)], Len(table))

\* the dict without the entries the table does not weigh
WeighedPart(table, scores) ==
    [k \in { a \in DOMAIN scores :
               \E i \in DOMAIN table : table[i][1] = a } |-> scores[k]]

ExactLegendScoreInRange ==
    pc = "done"
        => RatLe(Num(0), legend_score) /\ RatLe(legend_score, Num(100))

\* C10: for a position without an entry in POSITION_WEIGHTS the call
\* returns, and returns the value it returns for position 'LB'.
C10_UnknownPositionUsesLB ==
    (pc = "done" /\ position \notin DOMAIN POSITION_WEIGHTS)
        => /\ legend_score # Unset
           /\ legend_score = calculate_legend_score(attribute_scores, "LB")

C10_Witness ==
    /\ pc = "done" /\ position = "UNKNOWN_POS"
    /\ DOMAIN attribute_scores = {"height", "def_sacks"}
    /\ legend_score # Num(50)

----------------------------------------------------------------------------
(* calculate_attribute_scores followed by calculate_legend_score *)

\* marks a key the row does not have
Absent == 0 - 3

\* the cells a row may hold per column (Absent: no such key)
RowChoices ==
    [ height_in  : {Absent, NaN, 72},
      draft_pick : {Absent, NaN, 50, UNDRAFTED},
      pro_bowls  : {Absent, NaN, 2},
      hof_flag   : {Absent, NaN, None, 0, 1} ]

\* the row of a choice: all_pros is given as pro_bowls is
RowOf(c) ==
    LET cells == [k \in DOMAIN c \cup {"all_pros"} |->
                    IF k = "all_pros" THEN c["pro_bowls"] ELSE c[k]]
    IN  [k \in { j \in DOMAIN cells : cells[j] # Absent } |-> cells[k]]

Rows == { RowOf(c) : c \in RowChoices }

\* the columns of a complete position_data frame
FrameColumns == {"height_in", "forty_time", "draft_pick", "pro_bowls",
                 "all_pros", "hof_flag"}

\* the peer rows a frame is made of: a drafted peer, an undrafted peer and
\* a peer without data
PeerRows ==
    { [height_in |-> 70, forty_time |-> 43, draft_pick |-> 10,
       pro_bowls |-> 0, all_pros |-> 0, hof_flag |-> 0],
      [height_in |-> 74, forty_time |-> 46, draft_pick |-> UNDRAFTED,
       pro_bowls |-> 3, all_pros |-> 1, hof_flag |-> 1],
      [height_in |-> NaN, forty_time |-> NaN, draft_pick |-> NaN,
       pro_bowls |-> NaN, all_pros |-> NaN, hof_flag |-> NaN] }

\* the column sets of the frames: complete, or lacking one column
FrameColumnSets ==
    {FrameColumns, FrameColumns \ {"pro_bowls"}, FrameColumns \ {"height_in"}}

Frames ==
    { Frame(cols, [i \in DOMAIN rs |-> [c \in cols |-> rs[i][c]]]) :
        cols \in FrameColumnSets, rs \in SeriesOver(PeerRows) }

InitAttributes ==
    /\ NormalizeNotCalled
    /\ ProcessNotCalled
    /\ legend_calls = << >>
    /\ RestNotCalled
    /\ pc = "call_attributes"
    /\ row \in Rows
    /\ position_data \in Frames
    /\ position \in {"QB", "XX"}
    /\ attribute_scores = Empty
    /\ legend_score = Unset
    /\ value = NaN
    /\ values = << >>
    /\ higher_better = TRUE
    /\ pscore = Unset

AttributeScoresCall ==
    /\ pc = "call_attributes"
    /\ LET result == calculate_attribute_scores(row, position_data)
       IN  IF result.raised
           THEN /\ pc' = "raised"
                /\ UNCHANGED attribute_scores
           ELSE /\ pc' = "call_legend"
                /\ attribute_scores' = result.scores
    /\ UNCHANGED << value, values, higher_better, pscore, row,
                    position_data, position, legend_score >>
    /\ UNCHANGED << normalizeVars, processVars, legend_calls >>
    /\ UNCHANGED restVars

NextAttributes == AttributeScoresCall \/ LegendScoreCall

SpecAttributes == InitAttributes /\ [][NextAttributes]_vars

----------------------------------------------------------------------------
(* Claims about calculate_attribute_scores *)

\* calculate_attribute_scores has returned its dict
Scored == pc \in {"call_legend", "done"}

\* the row has no value for the column: absent key or null value
MissingIn(r, column) ==
    column \notin DOMAIN r \/ r[column] \in {NaN, None}

\* the peers' values of a column
PeerCells(column) ==
    [i \in DOMAIN position_data.rows |-> position_data.rows[i][column]]

\* C6: the Hall-of-Fame score is exactly 100 when the player's hof_flag is
\* true and exactly 0 when it is false or missing (absent key or null
\* value), whatever the peers' hof_flag values are.
C6_HofScoreFromFlag ==
    Scored
        => attribute_scores["hof_flag"] =
              (IF ~MissingIn(row, "hof_flag") /\ row["hof_flag"] = 1
               THEN Num(100) ELSE Num(0))

\* C7: a player whose draft_pick is the undrafted value 999 receives the
\* draft_pick score 10, whatever the peers' draft_pick values are.
C7_UndraftedScoresTen ==
    (Scored /\ ~MissingIn(row, "draft_pick")
            /\ row["draft_pick"] = UNDRAFTED)
        => attribute_scores["draft_pick"] = Num(10)

C7_Witness ==
    /\ Scored
    /\ "draft_pick" \in DOMAIN row /\ row["draft_pick"] = UNDRAFTED
    /\ \E i \in DOMAIN position_data.rows :
          position_data.rows[i]["draft_pick"] = 10
    /\ attribute_scores["draft_pick"] = Num(10)

\* the peers that were drafted, and those of them picked later than the row
DraftedPeers ==
    { i \in DOMAIN position_data.rows :
        PeerCells("draft_pick")[i] # UNDRAFTED }
LaterDraftedPeers ==
    { i \in DraftedPeers :
        /\ PeerCells("draft_pick")[i] # NaN
        /\ PeerCells("draft_pick")[i] > row["draft_pick"] }

\* C8: the draft_pick score of a drafted player is the lower-is-better
\* percentile against the drafted peers only; peers holding the undrafted
\* value 999 enter neither the count nor the divisor.
C8_DraftPercentileOverDraftedPeers ==
    (Scored /\ ~MissingIn(row, "draft_pick")
            /\ row["draft_pick"] # UNDRAFTED)
        => attribute_scores["draft_pick"] =
              (IF DraftedPeers = {}
               THEN Num(50)
               ELSE Rat(100 * Cardinality(LaterDraftedPeers),
                        Cardinality(DraftedPeers)))

\* the column of the data that holds the raw value of a weighted attribute
ColumnOfAttribute(a) ==
    CASE a = "height" -> "height_in"
      [] a = "weight" -> "weight_lb"
      [] OTHER -> a

\* what attribute a (of weight w) adds to the total of the legend score
Contribution(a, w) ==
    RatMul(Rat(w, 100), ScoreOrNeutral(attribute_scores, a))

\* the attributes calculate_attribute_scores scores without a null guard
UnguardedAttributes == {"draft_pick", "pro_bowls", "all_pros", "hof_flag"}

ScoreWhenMissing(a) ==
    CASE a = "draft_pick" -> Num(10)
      [] a \in {"pro_bowls", "all_pros"} ->
            IF a \in DOMAIN row \/ Len(position_data.rows) = 0
            THEN Num(50)
            ELSE Rat(100 * Cardinality(
                        { i \in DOMAIN position_data.rows :
                            /\ PeerCells(a)[i] # NaN
                            /\ PeerCells(a)[i] < 0 }),
                     Len(position_data.rows))
      [] a = "hof_flag" ->
            IF "hof_flag" \in DOMAIN row /\ row["hof_flag"] = NaN
            THEN Num(100) ELSE Num(0)
      [] OTHER -> Num(50)

\* the score that enters the legend score for attribute a
ScoreEntering(a) ==
    IF MissingIn(row, ColumnOfAttribute(a))
    THEN ScoreWhenMissing(a)
    ELSE attribute_scores[a]

----------------------------------------------------------------------------
(* Python floats: IEEE-754 binary64 with round-to-nearest-even             *)
(*                                                                         *)
(* A natural number is a little-endian sequence of limbs in base 2^14      *)
(* without leading zero limbs (zero is << >>).  A float is zero or         *)
(* [m, e]: the number m * 2^e with a 53-bit m, 2^52 <= m < 2^53.  The      *)
(* scores and weights are never negative, subnormal or infinite.           *)

LimbBits == 14
LimbBase == 16384
MantissaBits == 53

\* 2^k for 0 <= k <= LimbBits
Pow2(k) ==
    << 1, 2, 4, 8, 16, 32, 64, 128, 256, 512, 1024, 2048, 4096, 8192,
       16384 >>[k + 1]

\* drop the leading zero limbs
RECURSIVE BigTrim(_)
BigTrim(a) ==
    IF a = << >> THEN << >>
    ELSE IF a[Len(a)] = 0 THEN BigTrim(SubSeq(a, 1, Len(a) - 1))
    ELSE a

\* the natural number k < 2^28 as limbs
BigOfInt(k) ==
    BigTrim(<< k % LimbBase, k \div LimbBase >>)

RECURSIVE BigAddC(_, _, _)
BigAddC(a, b, carry) ==
    IF a = << >> /\ b = << >>
    THEN (IF carry = 0 THEN << >> ELSE << carry >>)
    ELSE LET x == IF a = << >> THEN 0 ELSE Head(a)
             y == IF b = << >> THEN 0 ELSE Head(b)
             s == x + y + carry
         IN  << s % LimbBase >>
             \o BigAddC(IF a = << >> THEN << >> ELSE Tail(a),
                        IF b = << >> THEN << >> ELSE Tail(b),
                        s \div LimbBase)

BigAdd(a, b) == BigAddC(a, b, 0)

\* a - b for a >= b
RECURSIVE BigSubB(_, _, _)
BigSubB(a, b, borrow) ==
    IF a = << >> THEN << >>
    ELSE LET y == IF b = << >> THEN 0 ELSE Head(b)
             s == Head(a) - y - borrow
         IN  << (s + LimbBase) % LimbBase >>
             \o BigSubB(Tail(a), IF b = << >> THEN << >> ELSE Tail(b),
                        IF s < 0 THEN 1 ELSE 0)

BigSub(a, b) == BigTrim(BigSubB(a, b, 0))

\* -1, 0, 1 as a < b, a = b, a > b
RECURSIVE BigCmpFrom(_, _, _)
BigCmpFrom(a, b, i) ==
    IF i = 0 THEN 0
    ELSE IF a[i] < b[i] THEN 0 - 1
    ELSE IF a[i] > b[i] THEN 1
    ELSE BigCmpFrom(a, b, i - 1)

BigCmp(a, b) ==
    IF Len(a) < Len(b) THEN 0 - 1
    ELSE IF Len(a) > Len(b) THEN 1
    ELSE BigCmpFrom(a, b, Len(a))

\* a * k for a limb-sized k
RECURSIVE BigMulSmallC(_, _, _)
BigMulSmallC(a, k, carry) ==
    IF a = << >>
    THEN (IF carry = 0 THEN << >> ELSE << carry >>)
    ELSE LET s == Head(a) * k + carry
         IN  << s % LimbBase >> \o BigMulSmallC(Tail(a), k, s \div LimbBase)

BigMulSmall(a, k) == BigTrim(BigMulSmallC(a, k, 0))

\* floor(a / k) for a limb-sized k, from the top limb down
RECURSIVE BigDivSmallR(_, _, _)
BigDivSmallR(a, k, rem) ==
    IF a = << >> THEN << >>
    ELSE LET s == rem * LimbBase + a[Len(a)]
         IN  BigDivSmallR(SubSeq(a, 1, Len(a) - 1), k, s % k)
             \o << s \div k >>

BigDivSmall(a, k) == BigTrim(BigDivSmallR(a, k, 0))

\* a * 2^k and floor(a / 2^k)
BigShl(a, k) ==
    IF a = << >> THEN << >>
    ELSE [i \in 1..(k \div LimbBits) |-> 0]
         \o BigMulSmall(a, Pow2(k % LimbBits))

BigShr(a, k) ==
    IF Len(a) <= k \div LimbBits THEN << >>
    ELSE BigDivSmall(SubSeq(a, (k \div LimbBits) + 1, Len(a)),
                     Pow2(k % LimbBits))

RECURSIVE BigMulAcc(_, _, _, _)
BigMulAcc(a, b, i, acc) ==
    IF i > Len(b) THEN acc
    ELSE BigMulAcc(a, b, i + 1,
                   BigAdd(acc, [j \in 1..(i - 1) |-> 0]
                               \o BigMulSmallC(a, b[i], 0)))

BigMul(a, b) ==
    IF a = << >> \/ b = << >> THEN << >> ELSE BigTrim(BigMulAcc(a, b, 1, << >>))

\* number of bits of a limb-sized k, and of a
IntBitLen(k) == Cardinality({ i \in 0..(LimbBits - 1) : Pow2(i) <= k })

BigBitLen(a) ==
    IF a = << >> THEN 0
    ELSE (Len(a) - 1) * LimbBits + IntBitLen(a[Len(a)])

\* bit k of a (bit 0 is the lowest)
BigBit(a, k) ==
    IF k \div LimbBits >= Len(a) THEN 0
    ELSE (a[(k \div LimbBits) + 1] \div Pow2(k % LimbBits)) % 2

\* limb i of a, 0 beyond its length
Limb(a, i) == IF i <= Len(a) THEN a[i] ELSE 0

\* the next quotient limb floor(r / d), for r < d * 2^14 and a divisor d
\* whose top limb is at least 2^13: the estimate from the top limbs of r
\* and d is at most 2 too large
QuotientDigit(r, d) ==
    LET n    == Len(d)
        top  == Limb(r, n + 1) * LimbBase + Limb(r, n)
        qhat == IF top \div d[n] >= LimbBase
                THEN LimbBase - 1
                ELSE top \div d[n]
    IN  CHOOSE t \in { u \in (qhat - 2)..qhat : u >= 0 } :
            /\ BigCmp(BigMulSmall(d, t), r) <= 0
            /\ BigCmp(BigMulSmall(d, t + 1), r) > 0

\* << floor(a / d), a mod d >> by long division, limb i of a downwards
RECURSIVE BigDivModFrom(_, _, _, _, _)
BigDivModFrom(a, d, i, q, r) ==
    IF i = 0 THEN << BigTrim(q), r >>
    ELSE LET r2 == BigTrim(<< a[i] >> \o r)
             t  == QuotientDigit(r2, d)
         IN  IF t = 0
             THEN BigDivModFrom(a, d, i - 1, << 0 >> \o q, r2)
             ELSE BigDivModFrom(a, d, i - 1, << t >> \o q,
                                BigSub(r2, BigMulSmall(d, t)))

\* for a divisor d whose top limb is at least 2^13
BigDivMod(a, d) == BigDivModFrom(a, d, Len(a), << >>, << >>)

F64Zero == [m |-> << >>, e |-> 0]

\* the float nearest to x * 2^e (ties to the even mantissa)
F64Round(x, e) ==
    IF x = << >> THEN F64Zero
    ELSE LET len == BigBitLen(x)
         IN  IF len <= MantissaBits
             THEN [m |-> BigShl(x, MantissaBits - len),
                   e |-> e - (MantissaBits - len)]
             ELSE LET k    == len - MantissaBits
                      q    == BigShr(x, k)
                      rest == BigSub(x, BigShl(q, k))
                      half == BigCmp(BigMulSmall(rest, 2), BigShl(<< 1 >>, k))
                      up   == half > 0 \/ (half = 0 /\ BigBit(q, 0) = 1)
                      m    == IF up THEN BigAdd(q, << 1 >>) ELSE q
                  IN  IF BigBitLen(m) > MantissaBits
                      THEN [m |-> BigShr(m, 1), e |-> e + k + 1]
                      ELSE [m |-> m, e |-> e + k]

\* float(k) for an integer 0 <= k < 2^28
F64OfInt(k) == F64Round(BigOfInt(k), 0)

F64Mul(x, y) == F64Round(BigMul(x.m, y.m), x.e + y.e)

F64Add(x, y) ==
    IF x.m = << >> THEN y
    ELSE IF y.m = << >> THEN x
    ELSE LET e == IF x.e < y.e THEN x.e ELSE y.e
         IN  F64Round(BigAdd(BigShl(x.m, x.e - e), BigShl(y.m, y.e - e)), e)

\* x / y for y # 0: 56 quotient bits and a sticky bit, then rounded; both
\* sides are scaled by 2^3 to bring the top limb of the divisor to 2^13
F64Div(x, y) ==
    IF x.m = << >> THEN F64Zero
    ELSE LET qr == BigDivMod(BigShl(x.m, 56 + 3), BigShl(y.m, 3))
             sticky == IF qr[2] = << >> THEN << >> ELSE << 1 >>
         IN  F64Round(BigAdd(BigMulSmall(qr[1], 2), sticky),
                      x.e - y.e - 57)

\* x <= y
F64Le(x, y) ==
    IF x.m = << >> THEN TRUE
    ELSE IF y.m = << >> THEN FALSE
    ELSE IF x.e # y.e THEN x.e < y.e
    ELSE BigCmp(x.m, y.m) <= 0

----------------------------------------------------------------------------
(* calculate_legend_score in float arithmetic *)

\* the float of the literal of a weight: the double nearest to w / 100
WEIGHT_F64 == [w \in 1..35 |-> F64Div(F64OfInt(w), F64OfInt(100))]

\* the loop with scores[attribute] * weight and the two += on floats
RECURSIVE AccumulateF64(_, _, _, _)
AccumulateF64(items, scores, total_score, total_weight) ==
    IF items = << >>
    THEN << total_score, total_weight >>
    ELSE LET attribute == Head(items)[1]
             weight    == WEIGHT_F64[Head(items)[2]]
             s == IF attribute \in DOMAIN scores
                  THEN scores[attribute]
                  ELSE F64OfInt(50)
         IN  AccumulateF64(Tail(items), scores,
                           F64Add(total_score, F64Mul(s, weight)),
                           F64Add(total_weight, weight))

AverageF64(totals) ==
    IF totals[2] = F64Zero
    THEN F64OfInt(50)
    ELSE F64Div(totals[1], totals[2])

calculate_legend_score_f64(scores, pos) ==
    AverageF64(AccumulateF64(WeightsFor(pos), scores, F64Zero, F64Zero))

\* the keys of the dicts passed in: all attributes of one weight table
TableKeys(pos) ==
    { POSITION_WEIGHTS[pos][i][1] : i \in DOMAIN POSITION_WEIGHTS[pos] }

\* float scores in [0,100] passed in: 0.0, 1/3*100, 50.0, 100.0
FloatScores ==
    { F64Zero, F64Mul(F64Div(F64OfInt(1), F64OfInt(3)), F64OfInt(100)),
      F64OfInt(50), F64OfInt(100) }

\* the dicts passed in: one score for every attribute of one weight table
FloatScoreDicts ==
    { [k \in TableKeys(pos) |-> s] :
        pos \in DOMAIN POSITION_WEIGHTS, s \in FloatScores }

InitLegendF64 ==
    /\ NormalizeNotCalled
    /\ ProcessNotCalled
    /\ legend_calls = << >>
    /\ RestNotCalled
    /\ pc = "call_legend"
    /\ attribute_scores \in FloatScoreDicts
    /\ position \in DOMAIN POSITION_WEIGHTS \cup {"UNKNOWN_POS"}
    /\ legend_score = F64Zero
    /\ value = NaN
    /\ values = << >>
    /\ higher_better = TRUE
    /\ pscore = Unset
    /\ row = Empty
    /\ position_data = Frame({}, << >>)

LegendScoreCallF64 ==
    /\ pc = "call_legend"
    /\ legend_score' = calculate_legend_score_f64(attribute_scores, position)
    /\ pc' = "done"
    /\ UNCHANGED << value, values, higher_better, pscore, row,
                    position_data, position, attribute_scores >>
    /\ UNCHANGED << normalizeVars, processVars, legend_calls >>
    /\ UNCHANGED restVars

NextLegendF64 == LegendScoreCallF64

SpecLegendF64 == InitLegendF64 /\ [][NextLegendF64]_vars

\* C5: the legend score lies in [0,100] for every position label and every
\* attribute_scores dict (partial or empty) whose values lie in [0,100].
C5_LegendScoreInRange ==
    pc = "done"
        => F64Le(F64Zero, legend_score) /\ F64Le(legend_score, F64OfInt(100))

----------------------------------------------------------------------------
(* percentile_score in float arithmetic *)

\* largest number of peers in a Series of the float calls
MaxPeersF64 == 11

\* (mask).mean() * 100: the float sum / count, times 100.0
percentile_score_f64(v, vals, hb) ==
    IF IsNa(v) \/ vals = << >>
    THEN F64OfInt(50)
    ELSE LET count == IF hb THEN CountBelow(vals, v) ELSE CountAbove(vals, v)
         IN  F64Mul(F64Div(F64OfInt(count), F64OfInt(Len(vals))),
                    F64OfInt(100))

\* the Series of k entries x
Repeat(x, k) == [i \in 1..k |-> x]

\* the Series passed in: some peers 1, some 2, some 3 and some null
GroupedSeries ==
    { Repeat(1, a) \o Repeat(2, b) \o Repeat(3, c) \o Repeat(NaN, d) :
        a \in 0..MaxPeersF64, b \in 0..MaxPeersF64, c \in 0..MaxPeersF64,
        d \in 0..1 }

InitPercentileF64 ==
    /\ NormalizeNotCalled
    /\ ProcessNotCalled
    /\ legend_calls = << >>
    /\ RestNotCalled
    /\ pc = "call_percentile"
    /\ value \in RawValues \cup {NaN}
    /\ values \in { s \in GroupedSeries : Len(s) <= MaxPeersF64 }
    /\ higher_better \in BOOLEAN
    /\ pscore = F64Zero
    /\ row = Empty
    /\ position_data = Frame({}, << >>)
    /\ position = "LB"
    /\ attribute_scores = Empty
    /\ legend_score = Unset

PercentileCallF64 ==
    /\ pc = "call_percentile"
    /\ pscore' = percentile_score_f64(value, values, higher_better)
    /\ pc' = "percentile_done"
    /\ UNCHANGED << value, values, higher_better, row, position_data,
                    position, attribute_scores, legend_score >>
    /\ UNCHANGED << normalizeVars, processVars, legend_calls >>
    /\ UNCHANGED restVars

NextPercentileF64 == PercentileCallF64

SpecPercentileF64 == InitPercentileF64 /\ [][NextPercentileF64]_vars

\* C18: the direction flag reverses the ranking: for a fixed non-empty Series
\* and non-missing v1 < v2 the lower-is-better score of v1 is at least that
\* of v2 while the higher-is-better score of v1 is at most that of v2; and
\* the two scores of one value add up to at most 100.
C18_DirectionReversesAndSumAtMost100 ==
    RankedCall =>
        LET other == percentile_score_f64(value, values, ~higher_better)
        IN  /\ \A v2 \in RawValues :
                 value < v2 =>
                    IF higher_better
                    THEN F64Le(pscore,
                               percentile_score_f64(v2, values, TRUE))
                    ELSE F64Le(percentile_score_f64(v2, values, FALSE),
                               pscore)
            /\ F64Le(F64Add(pscore, other), F64OfInt(100))

----------------------------------------------------------------------------
(* process_players called on a table of players *)

\* largest number of rows of the table passed in
MaxPlayers == 3

\* full_name by player_id
FULL_NAMES == << "Ann", "Bob", "Cy", "Dee", "Eli", "Flo" >>

\* the data of a player: a decorated drafted one, an undrafted one without
\* honors or height, and one whose hof_flag cell is pd.NA
PlayerData ==
    { [height_in |-> 76, draft_pick |-> 10, pro_bowls |-> 2, all_pros |-> 1,
       hof_flag |-> 1],
      [height_in |-> NaN, draft_pick |-> UNDRAFTED, pro_bowls |-> 0,
       all_pros |-> 0, hof_flag |-> 0],
      [height_in |-> 74, draft_pick |-> 20, pro_bowls |-> 1, all_pros |-> 1,
       hof_flag |-> NA] }

\* the primary_pos labels of the table: an alias and its target, a label
\* without alias or weight table, the label of the fallback table, and a
\* null
TableLabels == {"S", "DB", "XX", "LB", NaNLabel}

\* the players of a table: a label and the data; a linebacker and a player
\* without label come with the first data only
PlayerChoices ==
    { c \in TableLabels \X PlayerData :
        c[1] \in {NaNLabel, "LB"} => c[2]["hof_flag"] = 1 }

\* the columns of the table passed in: complete, lacking full_name, or
\* with a normalized_pos column already there
TableColumns == {"player_id", "full_name", "primary_pos", "height_in",
                 "draft_pick", "pro_bowls", "all_pros", "hof_flag"}

TableColumnSets == {TableColumns, TableColumns \ {"full_name"},
                    TableColumns \cup {"normalized_pos"}}

\* the table of a sequence of player choices
TableOf(cols, choices) ==
    Frame(cols,
          [i \in DOMAIN choices |->
             [c \in cols |->
                CASE c = "player_id"   -> i
                  [] c = "full_name"   -> FULL_NAMES[i]
                  [] c = "primary_pos" -> choices[i][1]
                  [] c = "normalized_pos" -> "stale"
                  [] OTHER             -> choices[i][2][c]]])

Tables ==
    { TableOf(cols, choices) :
        cols \in TableColumnSets,
        choices \in UNION { [1..n -> PlayerChoices] : n \in 0..MaxPlayers } }

InitProcess ==
    /\ ScoringNotCalled
    /\ NormalizeNotCalled
    /\ legend_calls = << >>
    /\ weights = << >>
    /\ df_arg = Frame({}, << >>)
    /\ df_returned = Frame({}, << >>)
    /\ pc = "call_process"
    /\ df \in Tables
    /\ df_given = df
    /\ min_position_players \in {2, 3}
    /\ unique_positions = << >>
    /\ position_df = Frame({}, << >>)
    /\ next_row = 0
    /\ results = << >>

scoringLocals == << value, values, higher_better, pscore, row, position_data,
                    attribute_scores, legend_score >>

\* lines 366-370: results = [], the normalized_pos column, and the labels
\* the outer loop will visit
ProcessStart ==
    /\ pc = "call_process"
    /\ df' = WithNormalizedPos(df)
    /\ unique_positions' = Unique(Column(df', "normalized_pos"), {})
    /\ results' = << >>
    /\ pc' = "next_position"
    /\ UNCHANGED << min_position_players, position_df, next_row, position,
                    scoringLocals, normalizeVars, legend_calls >>
    /\ UNCHANGED restVars

\* lines 370-380: the next label of the outer loop; a null label and a
\* group below the minimum are passed over
NextPosition ==
    /\ pc = "next_position"
    /\ unique_positions # << >>
    /\ LET label == Head(unique_positions)
           group == PositionFrame(df, label)
       IN  /\ unique_positions' = Tail(unique_positions)
           /\ position' = label
           /\ IF IsNaLabel(label)
              THEN UNCHANGED << position_df, next_row, pc >>
              ELSE /\ position_df' = group
                   /\ IF GroupTooSmall(group, min_position_players)
                      THEN UNCHANGED << next_row, pc >>
                      ELSE next_row' = 1 /\ pc' = "score_row"
    /\ UNCHANGED << df, min_position_players, results, scoringLocals,
                    normalizeVars, legend_calls >>
    /\ UNCHANGED restVars

\* a pass of the inner loop that takes the scored member out of the group
ScoreRowDroppingScored ==
    /\ pc = "score_row"
    /\ LET r     == position_df.rows[1]
           attrs == calculate_attribute_scores(r, position_df)
           score == calculate_legend_score(attrs.scores, position)
           last  == Len(position_df.rows) = 1
       IN  /\ row' = r
           /\ position_data' = position_df
           /\ IF attrs.raised
              THEN UNCHANGED << attribute_scores, legend_score >>
              ELSE /\ attribute_scores' = attrs.scores
                   /\ legend_score' = score
           /\ IF ~HasIdentity(r)
              THEN /\ pc' = "raised"
                   /\ UNCHANGED << results, next_row, position_df >>
              ELSE /\ results' =
                        IF attrs.raised
                        THEN results
                        ELSE Append(results, ResultRow(r, position, score))
                   /\ position_df' =
                        Frame(position_df.cols, Tail(position_df.rows))
                   /\ next_row' = IF last THEN 0 ELSE next_row + 1
                   /\ pc' = IF last THEN "next_position" ELSE "score_row"
    /\ UNCHANGED << df, min_position_players, unique_positions,
                    position, value, values, higher_better, pscore,
                    normalizeVars, legend_calls >>
    /\ UNCHANGED restVars

\* lines 382-402: one pass of the inner loop over the rows of position_df,
\* which is passed to calculate_attribute_scores as position_data.  A
\* failure of the scoring is logged and the loop goes on; the log line
\* reads row['player_id'] and row['full_name'], so a row without them
\* raises out of the handler
ScoreRow ==
    /\ pc = "score_row"
    /\ LET r     == position_df.rows[next_row]
           attrs == calculate_attribute_scores(r, position_df)
           score == calculate_legend_score(attrs.scores, position)
           last  == next_row = Len(position_df.rows)
       IN  /\ row' = r
           /\ position_data' = position_df
           /\ IF attrs.raised
              THEN UNCHANGED << attribute_scores, legend_score >>
              ELSE /\ attribute_scores' = attrs.scores
                   /\ legend_score' = score
           /\ IF ~HasIdentity(r)
              THEN /\ pc' = "raised"
                   /\ UNCHANGED << results, next_row >>
              ELSE /\ results' =
                        IF attrs.raised
                        THEN results
                        ELSE Append(results, ResultRow(r, position, score))
                   /\ next_row' = IF last THEN 0 ELSE next_row + 1
                   /\ pc' = IF last THEN "next_position" ELSE "score_row"
    /\ UNCHANGED << df, min_position_players, unique_positions, position_df,
                    position, value, values, higher_better, pscore,
                    normalizeVars, legend_calls >>
    /\ UNCHANGED restVars

\* line 404: return pd.DataFrame(results)
ProcessReturn ==
    /\ pc = "next_position"
    /\ unique_positions = << >>
    /\ pc' = "returned"
    /\ UNCHANGED << processVars, position, scoringLocals, normalizeVars,
                    legend_calls >>
    /\ UNCHANGED restVars

NextProcess == ProcessStart \/ NextPosition \/ ScoreRow \/ ProcessReturn

SpecProcess == InitProcess /\ [][NextProcess]_vars

----------------------------------------------------------------------------
(* Claims about process_players *)

\* the rows of the table passed in, by index
Players == DOMAIN df.rows

\* the canonical group of a player, from the alias groups
GroupLabel(i) == AliasTarget(df.rows[i]["primary_pos"])

\* the players of a canonical group
Members(label) == { i \in Players : GroupLabel(i) = label }

\* the canonical groups of the table
GroupLabels == { GroupLabel(i) : i \in Players } \ {NaNLabel}

\* the output rows that carry a label, and those of a player
RowsLabelled(label) == { j \in DOMAIN results : results[j].position = label }
RowsOfPlayer(i) ==
    { j \in DOMAIN results : results[j].player_id = df.rows[i]["player_id"] }

\* a player whose scoring raises: the truth value of its hof_flag is an error
FailsScoring(i) == df.rows[i]["hof_flag"] = NA

\* C13: a group with exactly min_position_players members is scored, one
\* row per member that is scored without error; a group with fewer members
\* is skipped entirely, no output row carries its label; this holds for every
\* group whatever happens to the others.
C13_MinimumIsInclusive ==
    pc = "returned" =>
        \A label \in GroupLabels :
            /\ Cardinality(Members(label)) = min_position_players =>
                  \A i \in Members(label) :
                      ~FailsScoring(i) =>
                          /\ Cardinality(RowsOfPlayer(i)) = 1
                          /\ RowsOfPlayer(i) \subseteq RowsLabelled(label)
            /\ Cardinality(Members(label)) < min_position_players =>
                  RowsLabelled(label) = {}

\* a group of exactly two was scored after a group of one was skipped
C13_Witness ==
    /\ pc = "returned"
    /\ min_position_players = 2
    /\ Len(df.rows) = 3
    /\ df.rows[1]["primary_pos"] = "XX"
    /\ df.rows[2]["primary_pos"] = "S"
    /\ df.rows[3]["primary_pos"] = "DB"
    /\ Len(results) = 2
    /\ results[1].position = "DB" /\ results[1].player_id = 2
    /\ results[2].position = "DB" /\ results[2].player_id = 3

\* a player that is to have an output row
Qualifies(i) ==
    /\ df.rows[i]["primary_pos"] # NaNLabel
    /\ Cardinality(Members(GroupLabel(i))) >= min_position_players
    /\ ~FailsScoring(i)

\* C14: the output has exactly one row for every player with a non-null
\* position, in a group of at least min_position_players members, that is
\* scored without error, and no other row; the row carries the player's
\* player_id and full_name, the normalized primary_pos and source_tier 2.
C14_OneRowPerScoredPlayer ==
    pc = "returned" =>
        /\ \A i \in Players :
              Cardinality(RowsOfPlayer(i)) = IF Qualifies(i) THEN 1 ELSE 0
        /\ \A j \in DOMAIN results :
              \E i \in Players :
                  /\ results[j].player_id = df.rows[i]["player_id"]
                  /\ results[j].full_name = df.rows[i]["full_name"]
                  /\ results[j].position = GroupLabel(i)
                  /\ results[j].source_tier = 2

\* of three defensive backs, one under an alias and one that fails, two are
\* in the output under the label DB
C14_Witness ==
    /\ pc = "returned"
    /\ Len(df.rows) = 3
    /\ df.rows[1]["primary_pos"] = "S"
    /\ FailsScoring(2) /\ df.rows[2]["primary_pos"] = "DB"
    /\ df.rows[3]["primary_pos"] = "DB"
    /\ Len(results) = 2
    /\ results[1].player_id = 1 /\ results[1].position = "DB"
    /\ results[2].player_id = 3

\* the aggregated score of the player of an output row
AggregatedScore(j) ==
    LET i == CHOOSE k \in Players :
                 df.rows[k]["player_id"] = results[j].player_id
        group == PositionFrame(df, results[j].position)
    IN  calculate_legend_score(
            calculate_attribute_scores(df.rows[i], group).scores,
            results[j].position)

\* x is a whole number of hundredths
IsHundredths(x) == 100 % x.d = 0

\* x and y differ by at most half a hundredth
WithinHalfHundredth(x, y) ==
    /\ RatLe(x, RatAdd(y, Rat(1, 200)))
    /\ RatLe(y, RatAdd(x, Rat(1, 200)))

\* C15: every legend_score of the output lies in [0,100] and is the
\* player's aggregated score rounded to 2 decimal places.
C15_RoundedScoreInRange ==
    \A j \in DOMAIN results :
        /\ RatLe(Num(0), results[j].legend_score)
        /\ RatLe(results[j].legend_score, Num(100))
        /\ IsHundredths(results[j].legend_score)
        /\ WithinHalfHundredth(results[j].legend_score, AggregatedScore(j))

\* a score that the rounding changed is in the output
C15_Witness ==
    /\ pc = "returned"
    /\ \E j \in DOMAIN results :
          /\ results[j].legend_score # AggregatedScore(j)
          /\ ~IsHundredths(AggregatedScore(j))

\* C16: a failure while scoring one player never aborts the batch:
\* process_players does not raise, and when it has returned the failing
\* player is not in the output while every other player of a scored group is.
C16_FailureNeverAborts ==
    /\ pc # "raised"
    /\ pc = "returned" =>
          \A i \in Players :
              /\ FailsScoring(i) => RowsOfPlayer(i) = {}
              /\ Qualifies(i) => Cardinality(RowsOfPlayer(i)) = 1

----------------------------------------------------------------------------
(* calculate_legend_score called again on a dict built in another order *)

\* a dict in insertion order is the sequence of its << key, value >> items;
\* the keys of such a dict
KeysOfItems(items) == { items[i][1] : i \in DOMAIN items }

\* "attribute in attribute_scores" and "attribute_scores[attribute]": the
\* mapping of a dict, whatever the order of insertion
DictOfItems(items) ==
    [k \in KeysOfItems(items) |->
        items[CHOOSE i \in DOMAIN items : items[i][1] = k][2]]

\* the weight of an attribute in a table (0 if the table has none)
WeightIn(table, attribute) ==
    IF \E i \in DOMAIN table : table[i][1] = attribute
    THEN table[CHOOSE i \in DOMAIN table : table[i][1] = attribute][2]
    ELSE 0

\* a loop over attribute_scores.items() in place of weights.items()
RECURSIVE AccumulateInDictOrderF64(_, _, _, _)
AccumulateInDictOrderF64(items, table, total_score, total_weight) ==
    IF items = << >>
    THEN << total_score, total_weight >>
    ELSE LET w == WeightIn(table, Head(items)[1])
         IN  IF w = 0
             THEN AccumulateInDictOrderF64(Tail(items), table, total_score,
                                           total_weight)
             ELSE AccumulateInDictOrderF64(Tail(items), table,
                      F64Add(total_score,
                             F64Mul(Head(items)[2], WEIGHT_F64[w])),
                      F64Add(total_weight, WEIGHT_F64[w]))

\* the score summed in the order of the dict
calculate_legend_score_in_dict_order(items, label) ==
    AverageF64(AccumulateInDictOrderF64(items, WeightsFor(label),
                                        F64Zero, F64Zero))

\* calculate_legend_score(attribute_scores, position) on a dict given by its
\* items
calculate_legend_score_of_items(items, label) ==
    calculate_legend_score_f64(DictOfItems(items), label)

\* the keys and the float scores of the dicts passed in
OrderKeys == {"draft_pick", "pro_bowls", "all_pros"}
OrderScores ==
    { F64Mul(F64Div(F64OfInt(1), F64OfInt(3)), F64OfInt(100)),
      F64OfInt(50), F64OfInt(100) }

\* the sequences without repetition over a set
Orderings(S) ==
    { f \in UNION { [1..n -> S] : n \in 0..Cardinality(S) } :
        \A i, j \in DOMAIN f : i # j => f[i] # f[j] }

\* the dicts passed in: some of the keys in some order, each with a score
ItemDicts ==
    UNION { { [i \in DOMAIN keys |-> << keys[i], scores[i] >>] :
                scores \in [DOMAIN keys -> OrderScores] } :
            keys \in Orderings(OrderKeys) }

\* the dicts with the items of a dict, in every order of insertion
Reorderings(items) ==
    { [i \in DOMAIN items |-> items[f[i]]] :
        f \in { g \in [DOMAIN items -> DOMAIN items] :
                  \A i, j \in DOMAIN items : i # j => g[i] # g[j] } }

\* the record of a call
LegendCall(items, label) ==
    [ scores   |-> items,
      position |-> label,
      result   |-> calculate_legend_score_of_items(items, label) ]

InitOrder ==
    /\ NormalizeNotCalled
    /\ ProcessNotCalled
    /\ pc = "call_legend"
    /\ attribute_scores \in ItemDicts
    /\ position \in {"K", "QB"}
    /\ legend_score = F64Zero
    /\ legend_calls = << >>
    /\ RestNotCalled
    /\ value = NaN
    /\ values = << >>
    /\ higher_better = TRUE
    /\ pscore = Unset
    /\ row = Empty
    /\ position_data = Frame({}, << >>)

\* a first call
LegendFirstCall ==
    /\ pc = "call_legend"
    /\ legend_calls' = << LegendCall(attribute_scores, position) >>
    /\ legend_score' = legend_calls'[1].result
    /\ pc' = "call_reordered"
    /\ UNCHANGED << value, values, higher_better, pscore, row,
                    position_data, position, attribute_scores >>
    /\ UNCHANGED << normalizeVars, processVars, restVars >>

\* a call on a dict with the same items inserted in some order
LegendReorderedCall ==
    /\ pc = "call_reordered"
    /\ \E items \in Reorderings(attribute_scores) :
          /\ attribute_scores' = items
          /\ legend_calls' = Append(legend_calls, LegendCall(items, position))
          /\ legend_score' = legend_calls'[2].result
    /\ pc' = "call_repeated"
    /\ UNCHANGED << value, values, higher_better, pscore, row,
                    position_data, position >>
    /\ UNCHANGED << normalizeVars, processVars, restVars >>

\* the call before, once more
LegendRepeatedCall ==
    /\ pc = "call_repeated"
    /\ legend_calls' =
          Append(legend_calls, LegendCall(attribute_scores, position))
    /\ legend_score' = legend_calls'[3].result
    /\ pc' = "done"
    /\ UNCHANGED << value, values, higher_better, pscore, row,
                    position_data, position, attribute_scores >>
    /\ UNCHANGED << normalizeVars, processVars, restVars >>

NextOrder == LegendFirstCall \/ LegendReorderedCall \/ LegendRepeatedCall

SpecOrder == InitOrder /\ [][NextOrder]_vars

\* the key/value pairs of a dict
Pairs(items) == { items[i] : i \in DOMAIN items }

----------------------------------------------------------------------------
(* lines 345-360 of calculate_legend_score run on a given weight table *)

\* the tables bound to the local weights: the ten of POSITION_WEIGHTS, a
\* table without entries and a table whose weights are all 0.0
WeightTables ==
    { POSITION_WEIGHTS[p] : p \in DOMAIN POSITION_WEIGHTS }
    \cup { << >>, << <<"height", 0>>, <<"hof_flag", 0>> >> }

\* the dicts passed in
WeighedDicts ==
    UNION { [K -> DictScores] :
              K \in SUBSET {"height", "hof_flag", "def_sacks"} }

InitWeights ==
    /\ NormalizeNotCalled
    /\ ProcessNotCalled
    /\ legend_calls = << >>
    /\ pc = "weights_bound"
    /\ weights \in WeightTables
    /\ attribute_scores \in WeighedDicts
    /\ position = "LB"
    /\ legend_score = Unset
    /\ value = NaN
    /\ values = << >>
    /\ higher_better = TRUE
    /\ pscore = Unset
    /\ row = Empty
    /\ position_data = Frame({}, << >>)
    /\ df_given = Frame({}, << >>)
    /\ df_arg = Frame({}, << >>)
    /\ df_returned = Frame({}, << >>)

\* the loop over weights.items(), the guard and the division
WeightedAverageCall ==
    /\ pc = "weights_bound"
    /\ legend_score' =
          Average(Accumulate(weights, attribute_scores, Num(0), Num(0)))
    /\ pc' = "done"
    /\ UNCHANGED << value, values, higher_better, pscore, row,
                    position_data, position, attribute_scores >>
    /\ UNCHANGED << normalizeVars, processVars, legend_calls, restVars >>

NextWeights == WeightedAverageCall

SpecWeights == InitWeights /\ [][NextWeights]_vars

\* the hundredths of the weights of a table, added up
RECURSIVE Hundredths(_)
Hundredths(table) ==
    IF table = << >> THEN 0 ELSE Head(table)[2] + Hundredths(Tail(table))

\* C24: when the weights add up to zero the call returns 50.0 instead of
\* dividing by zero; in each of the ten tables of POSITION_WEIGHTS every
\* weight is non-negative and the weights add up to more than zero, so the
\* call on such a table returns the quotient.
C24_ZeroWeightGuard ==
    pc = "done" =>
        /\ Hundredths(weights) = 0 => legend_score = Num(50)
        /\ \A p \in DOMAIN POSITION_WEIGHTS :
              /\ \A i \in DOMAIN POSITION_WEIGHTS[p] :
                    POSITION_WEIGHTS[p][i][2] >= 0
              /\ Hundredths(POSITION_WEIGHTS[p]) > 0
              /\ weights = POSITION_WEIGHTS[p] =>
                    legend_score =
                        RatDiv(WeightedSum(weights, attribute_scores),
                               WeightTotal(weights))

\* the call on a table without entries returned 50.0 for a dict of scores
C24_Witness ==
    /\ pc = "done"
    /\ weights = << >>
    /\ DOMAIN attribute_scores = {"height", "hof_flag"}
    /\ attribute_scores["height"] = Num(100)
    /\ legend_score = Num(50)

\* C25: for each of the ten positions the weights of its table add up to
\* 1.0: the total weight the call accumulates is 100 hundredths.
C25_TableWeightsSumToOne ==
    (pc = "done" /\ position \in DOMAIN POSITION_WEIGHTS) =>
        /\ Hundredths(POSITION_WEIGHTS[position]) = 100
        /\ Accumulate(WeightsFor(position), attribute_scores,
                      Num(0), Num(0))[2] = Num(1)

\* the members of the group being scored, from the table as it was given
GroupPeers ==
    { i \in DOMAIN df_given.rows :
        AliasTarget(df_given.rows[i]["primary_pos"]) = position }

\* the members with a value in a column that is strictly worse than v
WorsePeers(column, v, higher) ==
    { i \in GroupPeers :
        LET p == df_given.rows[i][column]
        IN  p # NaN /\ (IF higher THEN p < v ELSE p > v) }

\* strictly worse peers with a value over the size of the group, times 100
ShareOfGroup(column, v, higher) ==
    Rat(100 * Cardinality(WorsePeers(column, v, higher)),
        Cardinality(GroupPeers))

\* C28: the divisor of every percentile is the member count of the position
\* group, peers without a value included: scoring a player sets each
\* percentile attribute to the number of strictly worse peers that have a
\* value, over the size of the group, times 100.
C28_DivisorIsGroupSize ==
    [][ pc = "score_row" =>
          LET r == position_df.rows[next_row]
          IN  r["hof_flag"] # NA =>
                /\ r["height_in"] # NaN =>
                      attribute_scores'["height"] =
                          ShareOfGroup("height_in", r["height_in"], TRUE)
                /\ r["draft_pick"] \notin {NaN, UNDRAFTED} =>
                      attribute_scores'["draft_pick"] =
                          ShareOfGroup("draft_pick", r["draft_pick"], FALSE)
                /\ attribute_scores'["pro_bowls"] =
                      ShareOfGroup("pro_bowls", r["pro_bowls"], TRUE)
                /\ attribute_scores'["all_pros"] =
                      ShareOfGroup("all_pros", r["all_pros"], TRUE) ]_vars

\* the tallest of three defensive backs was scored while one of them has no
\* height: one peer of three is below
C28_Witness ==
    /\ pc = "score_row" /\ next_row = 2
    /\ Len(position_df.rows) = 3
    /\ row = position_df.rows[1]
    /\ row["height_in"] = 76
    /\ position_df.rows[2]["height_in"] = NaN
    /\ position_df.rows[3]["height_in"] = 74
    /\ attribute_scores["height"] = Rat(100, 3)

\* the players whose raw label has neither an alias nor a weight table
Unmapped(i) ==
    LET label == df_given.rows[i]["primary_pos"]
    IN  /\ label \notin AliasKeys \cup {NaNLabel}
        /\ label \notin {"QB", "RB", "WR", "TE", "OL", "DL", "LB", "DB",
                         "K", "P"}

\* the players of the table as given that carry the raw label of player i
SameLabel(i) ==
    { k \in DOMAIN df_given.rows :
        df_given.rows[k]["primary_pos"] = df_given.rows[i]["primary_pos"] }

\* the frame of the players of a set, in the order of the table
RECURSIVE FrameRowsOf(_, _)
FrameRowsOf(rows, keep) ==
    IF rows = << >> THEN << >>
    ELSE (IF Head(rows)["player_id"] \in keep
          THEN << Head(rows) >> ELSE << >>)
         \o FrameRowsOf(Tail(rows), keep)

\* the score of player i against the players of its own raw label, weighed
\* with the LB table
ScoreInOwnLabelWithLB(i) ==
    LET ids    == { df_given.rows[k]["player_id"] : k \in SameLabel(i) }
        peers  == Frame(df_given.cols, FrameRowsOf(df_given.rows, ids))
        scores == calculate_attribute_scores(df_given.rows[i], peers).scores
    IN  RatDiv(WeightedSum(POSITION_WEIGHTS["LB"], scores),
               WeightTotal(POSITION_WEIGHTS["LB"]))

\* C29: the players of an unmapped label whose group has at least
\* min_position_players members are in the output: position is the unmapped
\* label itself, the percentiles are taken against the members of that
\* label's own group, and the score is aggregated with the LB weight table.
C29_UnmappedLabelScoredWithLB ==
    pc = "returned" =>
        \A i \in DOMAIN df_given.rows :
            (/\ Unmapped(i)
             /\ Cardinality(SameLabel(i)) >= min_position_players
             /\ ~FailsScoring(i))
            => \E j \in DOMAIN results :
                  /\ results[j].player_id = df_given.rows[i]["player_id"]
                  /\ results[j].position = df_given.rows[i]["primary_pos"]
                  /\ IsHundredths(results[j].legend_score)
                  /\ WithinHalfHundredth(results[j].legend_score,
                                         ScoreInOwnLabelWithLB(i))

\* two players labelled XX were scored with a linebacker in the table
C29_Witness ==
    /\ pc = "returned"
    /\ min_position_players = 2
    /\ Len(df.rows) = 3
    /\ df_given.rows[1]["primary_pos"] = "XX"
    /\ df_given.rows[2]["primary_pos"] = "LB"
    /\ df_given.rows[3]["primary_pos"] = "XX"
    /\ Len(results) = 2
    /\ results[1].position = "XX" /\ results[2].position = "XX"
    /\ results[1].legend_score # results[2].legend_score

\* C30: process_players changes the table it is given only by adding or
\* overwriting the column normalized_pos: the rows, their order and every
\* other cell stay as given, whether groups are skipped, players fail, or
\* the call raises.
C30_OnlyNormalizedPosChanges ==
    /\ pc = "call_process" => df = df_given
    /\ pc # "call_process" =>
          /\ df.cols = df_given.cols \cup {"normalized_pos"}
          /\ DOMAIN df.rows = DOMAIN df_given.rows
          /\ \A i \in DOMAIN df_given.rows :
                \A c \in df_given.cols \ {"normalized_pos"} :
                    df.rows[i][c] = df_given.rows[i][c]

\* a call returned after an aliased group was scored with a failing member
\* and a group was skipped; the table has the new column
C30_Witness ==
    /\ pc = "returned"
    /\ "normalized_pos" \notin df_given.cols
    /\ Len(df_given.rows) = 3
    /\ df_given.rows[1]["primary_pos"] = "S"
    /\ df_given.rows[2]["primary_pos"] = "S"
    /\ df_given.rows[2]["hof_flag"] = NA
    /\ df_given.rows[3]["primary_pos"] = "XX"
    /\ Len(results) = 1
    /\ df.rows[1]["normalized_pos"] = "DB"
    /\ df.rows[1]["primary_pos"] = "S"

\* a call overwrote a normalized_pos column that was already there
C30_WitnessOverwrite ==
    /\ pc = "returned"
    /\ "normalized_pos" \in df_given.cols
    /\ Len(df_given.rows) = 2
    /\ df_given.rows[1]["normalized_pos"] = "stale"
    /\ df.rows[1]["normalized_pos"] = "DB"

\* C23: while the members of a position group are scored, the peer data of
\* the group is never modified: every pass of the inner loop leaves the
\* group as it was, and the peers a member is scored against are those the
\* member before it was scored against, also after a member failed.
C23_PeersUnchangedWhileScoring ==
    [][ pc = "score_row" =>
          /\ position_df' = position_df
          /\ position_data' = position_df
          /\ next_row > 1 => position_data' = position_data ]_vars

\* the last of three defensive backs was scored against the same three
\* peers as the first, after the second one failed
C23_Witness ==
    /\ pc = "next_position"
    /\ Len(position_df.rows) = 3
    /\ position_df.rows[2]["hof_flag"] = NA
    /\ row = position_df.rows[3]
    /\ position_data = position_df
    /\ position_data = PositionFrame(df, "DB")
    /\ Len(results) = 2

\* the players of the table as given that share the canonical group of
\* player i
SameGroup(i) ==
    { k \in DOMAIN df_given.rows :
        AliasTarget(df_given.rows[k]["primary_pos"]) =
            AliasTarget(df_given.rows[i]["primary_pos"]) }

\* a sequence back to front
RECURSIVE Reversed(_)
Reversed(seq) ==
    IF seq = << >> THEN << >>
    ELSE Append(Reversed(Tail(seq)), Head(seq))

\* the rows of the canonical group of player i, from the table as given
OwnGroupRows(i) ==
    FrameRowsOf(df_given.rows,
                { df_given.rows[k]["player_id"] : k \in SameGroup(i) })

\* the rounded score of player i computed from a sequence of peer rows alone
ScoreAmong(i, rows) ==
    Round2(calculate_legend_score(
               calculate_attribute_scores(df_given.rows[i],
                                          Frame(df_given.cols, rows)).scores,
               AliasTarget(df_given.rows[i]["primary_pos"])))

\* C22: position groups are independent: the legend score of every output
\* row is determined by the rows of the player's own canonical group alone,
\* whatever other players the table holds and in whatever order the members
\* of the group stand.
C22_ScoreFromOwnGroupOnly ==
    pc = "returned" =>
        \A j \in DOMAIN results :
            \E i \in DOMAIN df_given.rows :
                /\ df_given.rows[i]["player_id"] = results[j].player_id
                /\ results[j].legend_score = ScoreAmong(i, OwnGroupRows(i))
                /\ results[j].legend_score =
                      ScoreAmong(i, Reversed(OwnGroupRows(i)))

\* two defensive backs were scored with a player of another group between
\* them in the table
C22_Witness ==
    /\ pc = "returned"
    /\ Len(df_given.rows) = 3
    /\ df_given.rows[1]["primary_pos"] = "S"
    /\ df_given.rows[2]["primary_pos"] = "LB"
    /\ df_given.rows[3]["primary_pos"] = "DB"
    /\ Len(results) = 2
    /\ results[1].legend_score # results[2].legend_score

----------------------------------------------------------------------------
(* process_players called on a table of quarterbacks *)

\* number of quarterbacks of the table
QBGroupSize == 5

\* the columns of the table: identity, label, and the attributes the QB
\* weight table weighs
QBColumns == {"player_id", "full_name", "primary_pos", "height_in",
              "weight_lb", "forty_time", "career_passing_yards",
              "career_passing_tds", "playoff_passing_yards",
              "playoff_passing_tds", "career_seasons", "draft_pick",
              "pro_bowls", "all_pros", "hof_flag"}

\* a first-year quarterback without honors: the draft pick and the forty
\* time (in hundredths of a second) vary, the latter may be missing
RookieRows ==
    { [height_in |-> 72, weight_lb |-> 210, forty_time |-> forty,
       career_passing_yards |-> 500, career_passing_tds |-> 2,
       playoff_passing_yards |-> 0, playoff_passing_tds |-> 0,
       career_seasons |-> 1, draft_pick |-> pick,
       pro_bowls |-> 0, all_pros |-> 0, hof_flag |-> 0] :
        forty \in {500, NaN}, pick \in {100, UNDRAFTED} }

\* a second quarterback: every attribute is that of the rookie or another
\* one; the passing yardage is that of no other player
CandidateRows ==
    { [height_in |-> height, weight_lb |-> 210, forty_time |-> forty,
       career_passing_yards |-> yards, career_passing_tds |-> tds,
       playoff_passing_yards |-> playoff[1],
       playoff_passing_tds |-> playoff[2],
       career_seasons |-> seasons, draft_pick |-> pick,
       pro_bowls |-> honors[1], all_pros |-> honors[2],
       hof_flag |-> hof] :
        height \in {70, 72}, forty \in {480, 520, NaN},
        yards \in {15000, 90000}, tds \in {2, 300},
        playoff \in {<<0, 0>>, <<5000, 40>>}, seasons \in {1, 15},
        pick \in {1, 199, UNDRAFTED}, honors \in {<<0, 0>>, <<5, 3>>},
        hof \in {0, 1} }

\* the j-th of the other quarterbacks: established players, each ahead of
\* the one before
VeteranRow(j) ==
    [height_in |-> 72 + j, weight_lb |-> 210 + 5 * j,
     forty_time |-> 490 - 10 * j,
     career_passing_yards |-> 10000 * j, career_passing_tds |-> 50 * j,
     playoff_passing_yards |-> 1000 * (j - 1),
     playoff_passing_tds |-> 5 * (j - 1),
     career_seasons |-> 3 + j, draft_pick |-> 30 * j,
     pro_bowls |-> j - 1, all_pros |-> j - 1, hof_flag |-> 0]

\* the table of a rookie, a candidate and the veterans
QBTableOf(rookie, candidate) ==
    Frame(QBColumns,
          [i \in 1..QBGroupSize |->
             [c \in QBColumns |->
                CASE c = "player_id"   -> i
                  [] c = "full_name"   -> FULL_NAMES[i]
                  [] c = "primary_pos" -> "QB"
                  [] OTHER ->
                       IF i = 1 THEN rookie[c]
                       ELSE IF i = 2 THEN candidate[c]
                       ELSE VeteranRow(i - 2)[c]]])

QBTables ==
    { QBTableOf(rookie, candidate) :
        rookie \in RookieRows, candidate \in CandidateRows }

\* the call process_players(df_eligible) of main, with the default
\* min_position_players
InitQuarterbacks ==
    /\ ScoringNotCalled
    /\ NormalizeNotCalled
    /\ legend_calls = << >>
    /\ weights = << >>
    /\ df_arg = Frame({}, << >>)
    /\ df_returned = Frame({}, << >>)
    /\ pc = "call_process"
    /\ df \in QBTables
    /\ df_given = df
    /\ min_position_players = 3
    /\ unique_positions = << >>
    /\ position_df = Frame({}, << >>)
    /\ next_row = 0
    /\ results = << >>

SpecQuarterbacks == InitQuarterbacks /\ [][NextProcess]_vars

\* the attributes of the QB weight table by column, and whether more is
\* better; for draft_pick the 999 of an undrafted player is the worst pick
QBAttributes ==
    { <<"height_in", TRUE>>, <<"weight_lb", TRUE>>, <<"forty_time", FALSE>>,
      <<"career_passing_yards", TRUE>>, <<"career_passing_tds", TRUE>>,
      <<"playoff_passing_yards", TRUE>>, <<"playoff_passing_tds", TRUE>>,
      <<"career_seasons", TRUE>>, <<"draft_pick", FALSE>>,
      <<"pro_bowls", TRUE>>, <<"all_pros", TRUE>>, <<"hof_flag", TRUE>> }

\* a is at least as good as b on an attribute: both have a value and that
\* of a is not worse, or both have none
AtLeastAsGoodOn(a, b, attr) ==
    \/ a[attr[1]] = NaN /\ b[attr[1]] = NaN
    \/ /\ a[attr[1]] # NaN /\ b[attr[1]] # NaN
       /\ IF attr[2] THEN a[attr[1]] >= b[attr[1]]
                     ELSE a[attr[1]] <= b[attr[1]]

\* a has a value on an attribute that is better than that of b
BetterOn(a, b, attr) ==
    /\ a[attr[1]] # NaN /\ b[attr[1]] # NaN
    /\ IF attr[2] THEN a[attr[1]] > b[attr[1]] ELSE a[attr[1]] < b[attr[1]]

\* a quarterback with rookie-level stats and no honors
RookieLevel(r) ==
    /\ r["career_seasons"] <= 1
    /\ r["pro_bowls"] = 0 /\ r["all_pros"] = 0 /\ r["hof_flag"] = 0

\* the output row of a player of the table as given
OutputRowOf(i) ==
    CHOOSE j \in DOMAIN results :
        results[j].player_id = df_given.rows[i]["player_id"]

\* every quarterback that dominates a rookie-level one is scored higher
DominantScoresHigher ==
    \A a, b \in DOMAIN df_given.rows :
        (/\ RookieLevel(df_given.rows[b])
         /\ \A attr \in QBAttributes :
               AtLeastAsGoodOn(df_given.rows[a], df_given.rows[b], attr)
         /\ \E attr \in QBAttributes :
               BetterOn(df_given.rows[a], df_given.rows[b], attr))
        => /\ results[OutputRowOf(a)].legend_score
                # results[OutputRowOf(b)].legend_score
           /\ RatLe(results[OutputRowOf(b)].legend_score,
                    results[OutputRowOf(a)].legend_score)

\* the row has the largest career_passing_yards of the group
HasMostYards(r) ==
    \A k \in DOMAIN position_df.rows :
        position_df.rows[k]["career_passing_yards"]
            <= r["career_passing_yards"]

\* C21: in a processed group of n quarterbacks with distinct career passing
\* yardage, the one with the most yards gets the career_passing_yards score
\* (n-1)/n*100 (80.0 of five), and in the output a quarterback who is at
\* least as good as a rookie-level quarterback without honors on every
\* attribute of the QB weight table, and better on one, has a strictly
\* higher legend score.
C21_QuarterbackScenario ==
    [][ /\ (pc = "score_row" /\ HasMostYards(position_df.rows[next_row])) =>
              attribute_scores'["career_passing_yards"] =
                  Rat(100 * (Len(position_df.rows) - 1),
                      Len(position_df.rows))
        /\ pc' = "returned" => DominantScoresHigher' ]_vars

\* five quarterbacks were processed: the last one scored holds the most
\* yards and got 80.0 for them; the candidate differs from the rookie in
\* yards only and is scored 4 / 1.14 higher
C21_Witness ==
    /\ pc = "returned"
    /\ Len(results) = 5
    /\ row = position_df.rows[5]
    /\ HasMostYards(row)
    /\ attribute_scores["career_passing_yards"] = Num(80)
    /\ \A attr \in QBAttributes :
          attr[1] # "career_passing_yards" =>
              df_given.rows[2][attr[1]] = df_given.rows[1][attr[1]]
    /\ df_given.rows[2]["career_passing_yards"] = 15000
    /\ results[2].legend_score =
          RatAdd(results[1].legend_score, Rat(351, 100))

----------------------------------------------------------------------------
(* normalize.py: harmonize_positions *)

\* position_mapping of harmonize_positions
position_mapping ==
    [ QB |-> "QB",
      RB |-> "RB", HB |-> "RB", FB |-> "RB",
      WR |-> "WR", SE |-> "WR", FL |-> "WR",
      TE |-> "TE",
      C |-> "OL", G |-> "OL", T |-> "OL", OG |-> "OL", OT |-> "OL",
      LG |-> "OL", RG |-> "OL", LT |-> "OL", RT |-> "OL",
      DE |-> "DL", DT |-> "DL", NT |-> "DL", NG |-> "DL",
      LE |-> "DL", RE |-> "DL", LDE |-> "DL", RDE |-> "DL",
      LB |-> "LB", MLB |-> "LB", OLB |-> "LB", ILB |-> "LB",
      LOLB |-> "LB", ROLB |-> "LB", WLB |-> "LB", SLB |-> "LB",
      CB |-> "DB", S |-> "DB", FS |-> "DB", SS |-> "DB",
      LCB |-> "DB", RCB |-> "DB", NCB |-> "DB", DB |-> "DB",
      K |-> "K", PK |-> "K",
      P |-> "P",
      LS |-> "ST", KR |-> "ST", PR |-> "ST" ]

\* df['primary_pos'].map(position_mapping), a label outside the table (a
\* null gives a null) keeping the original primary_pos
HarmonizedLabel(label) ==
    IF label \in DOMAIN position_mapping
    THEN position_mapping[label]
    ELSE label

\* harmonize_positions(df, logger): a copy of the table whose primary_pos is
\* the harmonized label; the helper column normalized_pos is dropped
harmonize_positions(frame) ==
    Frame(frame.cols \ {"normalized_pos"},
          [i \in DOMAIN frame.rows |->
             [c \in frame.cols \ {"normalized_pos"} |->
                IF c = "primary_pos"
                THEN HarmonizedLabel(frame.rows[i]["primary_pos"])
                ELSE frame.rows[i][c]]])

\* largest number of rows of the table passed to harmonize_positions
MaxHarmonized == 2

\* raw labels: keys of the table of each kind, a category that is no key,
\* an unknown label and a null
RawLabels == {"QB", "HB", "S", "PK", "LS", "KR", "ST", "XX", NaNLabel}

\* the tables passed in: player_id and primary_pos
RawTables ==
    { Frame({"player_id", "primary_pos"},
            [i \in DOMAIN labels |->
               [c \in {"player_id", "primary_pos"} |->
                  IF c = "player_id" THEN i ELSE labels[i]]]) :
        labels \in UNION { [1..n -> RawLabels] : n \in 0..MaxHarmonized } }

InitHarmonize ==
    /\ ScoringNotCalled
    /\ NormalizeNotCalled
    /\ ProcessNotCalled
    /\ legend_calls = << >>
    /\ weights = << >>
    /\ df_given = Frame({}, << >>)
    /\ pc = "call_harmonize"
    /\ df_arg \in RawTables
    /\ df_returned = Frame({}, << >>)

\* df = harmonize_positions(df, logger)
HarmonizeCall ==
    /\ pc = "call_harmonize"
    /\ df_returned' = harmonize_positions(df_arg)
    /\ pc' = "harmonized"
    /\ UNCHANGED << value, values, higher_better, pscore, row,
                    position_data, position, attribute_scores,
                    legend_score >>
    /\ UNCHANGED << normalizeVars, processVars, legend_calls, weights,
                    df_given, df_arg >>

NextHarmonize == HarmonizeCall

SpecHarmonize == InitHarmonize /\ [][NextHarmonize]_vars

\* the ten standard categories, those the scoring has weight tables for
StandardCategories == DOMAIN POSITION_WEIGHTS

\* C26: harmonize_positions maps every label that is a key of
\* position_mapping to one of the ten standard categories QB, RB, WR, TE,
\* OL, DL, LB, DB, K, P and leaves every other label unchanged.
C26_MappedToStandardCategories ==
    pc = "harmonized" =>
        \A i \in DOMAIN df_arg.rows :
            LET raw == df_arg.rows[i]["primary_pos"]
                new == df_returned.rows[i]["primary_pos"]
            IN  /\ raw \in DOMAIN position_mapping => new \in StandardCategories
                /\ raw \notin DOMAIN position_mapping => new = raw

----------------------------------------------------------------------------
(* normalize.py: apply_legend_filters *)

\* position_quotas, the (position, quota) items in dict order
position_quotas ==
    << <<"QB", 200>>, <<"RB", 450>>, <<"WR", 600>>, <<"TE", 250>>,
       <<"OL", 800>>, <<"DL", 600>>, <<"LB", 450>>, <<"DB", 700>>,
       <<"K", 120>>, <<"P", 60>>, <<"ST", 60>> >>

\* the smaller of two numbers
Min(a, b) == IF a <= b THEN a ELSE b

\* calculate_quality_score(row), in thousandths: every term of the source
\* is a whole number of thousandths for whole-numbered cells
calculate_quality_score(r) ==
    LET label == r["primary_pos"]
    IN  (IF r["hof_flag"] = 1 THEN 100000 ELSE 0)
        + r["all_pros"] * 10000
        + r["pro_bowls"] * 3000
        + r["career_seasons"] * 1000
        + Min(r["total_career_games"] * 100, 20000)
        + (CASE label = "QB" ->
                  Min(r["career_passing_yards"], 50000)
                  + r["career_tds"] * 500
             [] label = "RB" ->
                  Min(r["career_rushing_yards"] * 2, 40000)
                  + r["career_tds"] * 800
             [] label \in {"WR", "TE"} ->
                  Min(r["career_receiving_yards"] * 2, 40000)
                  + r["career_tds"] * 800
             [] label \in {"OL", "DL", "LB", "DB"} ->
                  Min(r["def_solo_tackles"] * 20, 30000)
                  + r["def_sacks"] * 2000
                  + r["def_ints"] * 3000
             [] label \in {"K", "P", "ST"} ->
                  r["career_seasons"] * 2000
             [] OTHER -> 0)
        + r["playoff_performance_bonus"] * 500

\* basic_filters, for one row
basic_filters(r) ==
    /\ \/ r["total_career_games"] >= 16
       \/ r["pro_bowls"] > 0
       \/ r["all_pros"] > 0
       \/ r["hof_flag"] = 1
    /\ \/ r["career_seasons"] >= 2
       \/ r["hof_flag"] = 1
       \/ r["all_pros"] > 0
       \/ r["pro_bowls"] >= 2
    /\ \/ r["total_career_games"] > 0
       \/ r["career_seasons"] > 0

\* basic_filtered[basic_filtered['primary_pos'] == pos]: the rows by index
PosPlayers(frame, label) ==
    { i \in DOMAIN frame.rows :
        /\ basic_filters(frame.rows[i])
        /\ frame.rows[i]["primary_pos"] = label }

\* the rows of a position that share their quality score with another one:
\* the sort is not stable, so their order is any
TiedPlayers(frame) ==
    { i \in DOMAIN frame.rows :
        \E j \in DOMAIN frame.rows :
            /\ j # i
            /\ frame.rows[j]["primary_pos"] = frame.rows[i]["primary_pos"]
            /\ calculate_quality_score(frame.rows[j]) =
                  calculate_quality_score(frame.rows[i]) }

\* the orders a sort may leave a set of tied rows in
TieOrders(tied) ==
    { f \in [tied -> 1..Cardinality(tied)] :
        \A a, b \in tied : a # b => f[a] # f[b] }

\* a function, tabulated: TLC then evaluates it once instead of at every
\* application
Tabulated(f) == f @@ << >>

\* sort_values('quality_score', ascending=True) under a tie order
SortedAscending(frame, players, ties) ==
    LET score == Tabulated([i \in players |->
                               calculate_quality_score(frame.rows[i])])
        key   == [i \in players |-> IF i \in DOMAIN ties THEN ties[i] ELSE 0]
        rank  == Tabulated([i \in players |->
                    1 + Cardinality({ j \in players :
                          \/ score[j] < score[i]
                          \/ score[j] = score[i] /\ key[j] < key[i] })])
    IN  [k \in 1..Cardinality(players) |->
           CHOOSE i \in players : rank[i] = k]

\* sort_values('quality_score', ascending=False) under a tie order
SortedDescending(frame, players, ties) ==
    LET score == Tabulated([i \in players |->
                               calculate_quality_score(frame.rows[i])])
        key   == [i \in players |-> IF i \in DOMAIN ties THEN ties[i] ELSE 0]
        rank  == Tabulated([i \in players |->
                    1 + Cardinality({ j \in players :
                          \/ score[j] > score[i]
                          \/ score[j] = score[i] /\ key[j] < key[i] })])
    IN  [k \in 1..Cardinality(players) |->
           CHOOSE i \in players : rank[i] = k]

\* lines 324-347: the rows selected for one position, by index
SelectedPlayers(frame, label, quota, ties) ==
    LET pos_players  == PosPlayers(frame, label)
        pos_count    == Cardinality(pos_players)
        sorted       == SortedDescending(frame, pos_players, ties)
        actual_quota == Min(quota, pos_count)
    IN  IF pos_count = 0 THEN << >>
        ELSE IF 2 * pos_count <= quota THEN sorted
        ELSE SubSeq(sorted, 1, actual_quota)

\* final_selections after the first n items of position_quotas
RECURSIVE FinalSelections(_, _, _)
FinalSelections(frame, n, ties) ==
    IF n = 0 THEN << >>
    ELSE FinalSelections(frame, n - 1, ties)
         \o SelectedPlayers(frame, position_quotas[n][1],
                            position_quotas[n][2], ties)

\* the frame returned: pd.concat(final_selections), or pd.DataFrame() when
\* nothing was selected; quality_score is dropped again
apply_legend_filters(frame, ties) ==
    LET picked == FinalSelections(frame, Len(position_quotas), ties)
    IN  IF picked = << >> THEN Frame({}, << >>)
        ELSE Frame(frame.cols,
                   [k \in DOMAIN picked |-> frame.rows[picked[k]]])

\* largest number of rows drawn freely at the end of a table
MaxDrawn == 2

\* the columns apply_legend_filters reads
FilterColumns ==
    {"player_id", "primary_pos", "era", "hof_flag", "all_pros", "pro_bowls",
     "career_seasons", "total_career_games", "career_passing_yards",
     "career_rushing_yards", "career_receiving_yards", "career_tds",
     "def_solo_tackles", "def_sacks", "def_ints",
     "playoff_performance_bonus"}

\* a punter of three seasons without statistics
PlainPunter ==
    [primary_pos |-> "P", era |-> "2000s", hof_flag |-> 0, all_pros |-> 0,
     pro_bowls |-> 0, career_seasons |-> 3, total_career_games |-> 48,
     career_passing_yards |-> 0, career_rushing_yards |-> 0,
     career_receiving_yards |-> 0, career_tds |-> 0, def_solo_tackles |-> 0,
     def_sacks |-> 0, def_ints |-> 0, playoff_performance_bonus |-> 0]

\* the i-th punter of the fixed part of a table: each scores higher than
\* the one before
RankedPunter(i) == [PlainPunter EXCEPT !["playoff_performance_bonus"] = 2 * i]

\* the rows drawn freely: a punter level with the lowest ranked one, a
\* decorated one, one who fails the basic filters with a high score, one
\* below all ranked ones, a quarterback, a linebacker, and a player whose
\* label has no quota
DrawnRows ==
    { RankedPunter(1),
      [PlainPunter EXCEPT !["hof_flag"] = 1, !["all_pros"] = 3,
                          !["pro_bowls"] = 5, !["career_seasons"] = 15,
                          !["total_career_games"] = 240],
      [PlainPunter EXCEPT !["career_seasons"] = 1,
                          !["total_career_games"] = 10,
                          !["playoff_performance_bonus"] = 1000],
      PlainPunter,
      [PlainPunter EXCEPT !["primary_pos"] = "QB",
                          !["career_seasons"] = 10,
                          !["total_career_games"] = 160,
                          !["career_passing_yards"] = 60000,
                          !["career_tds"] = 300],
      [PlainPunter EXCEPT !["primary_pos"] = "LB",
                          !["def_solo_tackles"] = 500,
                          !["def_sacks"] = 10, !["def_ints"] = 5],
      [PlainPunter EXCEPT !["primary_pos"] = "XX"] }

\* position_quotas[pos]
QuotaOf(label) ==
    position_quotas[CHOOSE q \in DOMAIN position_quotas :
                       position_quotas[q][1] = label][2]

\* the numbers of ranked punters: none, one below half the quota of P, one
\* below the quota, and the quota
RankedCounts ==
    {0, (QuotaOf("P") \div 2) - 1, QuotaOf("P") - 1, QuotaOf("P")}

\* the table of n ranked punters followed by drawn rows
FilterTableOf(n, drawn) ==
    Frame(FilterColumns,
          [k \in 1..(n + Len(drawn)) |->
             [c \in FilterColumns |->
                IF c = "player_id" THEN k
                ELSE IF k <= n THEN RankedPunter(k)[c]
                ELSE drawn[k - n][c]]])

FilterTables ==
    { FilterTableOf(n, drawn) :
        n \in RankedCounts,
        drawn \in UNION { [1..m -> DrawnRows] : m \in 0..MaxDrawn } }

InitFilters ==
    /\ ScoringNotCalled
    /\ NormalizeNotCalled
    /\ ProcessNotCalled
    /\ legend_calls = << >>
    /\ weights = << >>
    /\ df_given = Frame({}, << >>)
    /\ pc = "call_filters"
    /\ df_arg \in FilterTables
    /\ df_returned = Frame({}, << >>)

\* filtered_df = apply_legend_filters(normalized_df, logger); the log line
\* of the basic filters divides by the number of rows of the table
FiltersCall ==
    /\ pc = "call_filters"
    /\ IF df_arg.rows = << >>
       THEN pc' = "raised" /\ UNCHANGED df_returned
       ELSE \E ties \in TieOrders(TiedPlayers(df_arg)) :
               /\ df_returned' = apply_legend_filters(df_arg, ties)
               /\ pc' = "filtered"
    /\ UNCHANGED << value, values, higher_better, pscore, row,
                    position_data, position, attribute_scores,
                    legend_score >>
    /\ UNCHANGED << normalizeVars, processVars, legend_calls, weights,
                    df_given, df_arg >>

NextFilters == FiltersCall

SpecFilters == InitFilters /\ [][NextFilters]_vars

\* the rows of the table passed in that pass the basic filters at a position
Passing(label) ==
    { i \in DOMAIN df_arg.rows :
        /\ basic_filters(df_arg.rows[i])
        /\ df_arg.rows[i]["primary_pos"] = label }

\* the player_ids of the returned rows of a position
SelectedIds(label) ==
    { df_returned.rows[j]["player_id"] :
        j \in { k \in DOMAIN df_returned.rows :
                  df_returned.rows[k]["primary_pos"] = label } }

\* the quality score of the player of the table passed in with an id
ScoreOfId(id) ==
    calculate_quality_score(
        df_arg.rows[CHOOSE i \in DOMAIN df_arg.rows :
                       df_arg.rows[i]["player_id"] = id])

====
